---- MODULE Spec2Model ----
(***************************************************************************)
(* A model of the uesave package: the Unreal Engine SaveGame (GVAS) codec.  *)
(* Byte buffers are sequences of integers 0..255, Python strings are        *)
(* sequences of code points, and every reader returns a record              *)
(* [ok, val, off, err]: ok = FALSE stands for the Python exception named    *)
(* by err, which aborts the caller.  Buffer offsets are 0-based as in the   *)
(* source; sequence indices are 1-based.                                    *)
(***************************************************************************)
EXTENDS Integers, Sequences, FiniteSets, TLC

VARIABLES
    s,          \* string codec: the string handed to _write_string
    sdata,      \* string codec: the bytearray written to
    sstart,     \* string codec: the cursor at which the string was written
    sres,       \* string codec: the result of _read_string
    spc         \* string codec: position of the client ("start", "written", "read")

strVars == <<s, sdata, sstart, sres, spc>>

VARIABLES
    gin,        \* GUID codec: the client's input, a 16-byte block or a GUID string
    gbytes,     \* GUID codec: the bytes read from / written by _write_guid
    gtext,      \* GUID codec: the string returned by _read_guid / handed to _write_guid
    gpc         \* GUID codec: position of the client ("start", "half", "done")

guidVars == <<gin, gbytes, gtext, gpc>>

VARIABLES
    raw_bytes,  \* envelope: the buffer handed to decompress_payload
    method,     \* envelope: the method selector
    lib,        \* envelope: what each codec library does with raw_bytes
    dres,       \* envelope: the outcome of the last decompress_payload call
    dorig,      \* envelope: the buffer of the first call
    dcalls      \* envelope: number of calls made so far

envVars == <<raw_bytes, method, lib, dres, dorig, dcalls>>

VARIABLES
    pin,        \* property codec: the buffer and the offset handed to _read_property
    pres,       \* property codec: the result of _read_property
    pout,       \* property codec: the result of _write_property on the node read
    pres2,      \* property codec: the result of _read_property on the bytes written
    ppc         \* property codec: position of the client

propVars == <<pin, pres, pout, pres2, ppc>>

VARIABLES
    fin,        \* file facade: the file's bytes, the compression argument, the libraries
    fheader,    \* file facade: what read_savefile got from _read_gvas_header
    fsave,      \* file facade: the result of read_savefile
    fout,       \* file facade: the bytes write_savefile wrote
    fsave2,     \* file facade: the result of read_savefile on the bytes written
    fpc         \* file facade: position of the client

fileVars == <<fin, fheader, fsave, fout, fsave2, fpc>>

VARIABLES
    hin,        \* header codec: the header dict handed to _write_gvas_header
    hout,       \* header codec: the bytes _write_gvas_header wrote
    hres,       \* header codec: the result of _read_gvas_header on those bytes
    hpc         \* header codec: position of the client

hdrVars == <<hin, hout, hres, hpc>>

VARIABLES
    uploads,            \* web inspector: the age in seconds of each file under UPLOAD_ROOT
    cleaner_started,    \* web inspector: app.state._cleaner_started
    upload_status       \* web inspector: the status of the last response of api_upload

webVars == <<uploads, cleaner_started, upload_status>>

vars == <<s, sdata, sstart, sres, spc, gin, gbytes, gtext, gpc,
          raw_bytes, method, lib, dres, dorig, dcalls,
          pin, pres, pout, pres2, ppc, fin, fheader, fsave, fout, fsave2, fpc,
          hin, hout, hres, hpc, uploads, cleaner_started, upload_status>>

(***************************************************************************)
(* Bounds of the model.                                                     *)
(***************************************************************************)
MaxStrLen == 3

\* how many times a client feeds a buffer through decompress_payload
MaxCalls == 2

\* how many records the body of a generated file holds at most
MaxProps == 2

(***************************************************************************)
(* Small helpers.                                                           *)
(***************************************************************************)
Min(a, b) == IF a < b THEN a ELSE b

Ok(v, o) == [ok |-> TRUE, val |-> v, off |-> o, err |-> ""]

Fail(e) == [ok |-> FALSE, val |-> <<>>, off |-> 0, err |-> e]

\* Python's data[a:b] for 0 <= a: clamps to the buffer, never raises.
Slice(data, a, b) == SubSeq(data, a + 1, Min(b, Len(data)))

\* bytes of the same value repeated n times (b'\x00' * 16)
Repeat(b, n) == [i \in 1..n |-> b]

(***************************************************************************)
(* struct.pack / struct.unpack_from for '<H', '<I' and '<i'.                *)
(***************************************************************************)
\* struct.unpack_from('<I', data, offset): struct.error when fewer than four
\* bytes remain.  Values with the top bit set do not fit TLC's integers;
\* the model's inputs keep u32 fields below 2^31.
_read_u32(data, offset) ==
    IF offset + 4 > Len(data) THEN Fail("struct.error")
    ELSE Ok(data[offset + 1] + 256 * data[offset + 2] + 65536 * data[offset + 3]
            + 16777216 * data[offset + 4], offset + 4)

\* struct.pack('<I', int(v) & 0xFFFFFFFF), for 0 <= v < 2^31
U32Bytes(v) ==
    << v % 256, (v \div 256) % 256, (v \div 65536) % 256, (v \div 16777216) % 256 >>

_write_u32(data, v) == data \o U32Bytes(v)

\* struct.unpack_from('<i', data, offset): two's complement
_read_i32(data, offset) ==
    IF offset + 4 > Len(data) THEN Fail("struct.error")
    ELSE LET b3 == data[offset + 4]
             hi == IF b3 >= 128 THEN b3 - 256 ELSE b3
         IN  Ok(data[offset + 1] + 256 * data[offset + 2] + 65536 * data[offset + 3]
                + 16777216 * hi, offset + 4)

\* struct.pack('<i', int(v)) for -2^31 <= v < 2^31
I32Bytes(v) ==
    IF v >= 0 THEN U32Bytes(v)
    ELSE LET w == (v + 2147483647) + 1
             lo == U32Bytes(w)
         IN  << lo[1], lo[2], lo[3], lo[4] + 128 >>

_write_i32(data, v) == data \o I32Bytes(v)

_read_u16(data, offset) ==
    IF offset + 2 > Len(data) THEN Fail("struct.error")
    ELSE Ok(data[offset + 1] + 256 * data[offset + 2], offset + 2)

\* struct.pack('<H', int(v) & 0xFFFF)
_write_u16(data, v) == data \o << v % 256, (v \div 256) % 256 >>

(***************************************************************************)
(* Python's text codecs, as far as _read_string and _write_string use them. *)
(***************************************************************************)
IsSurrogate(c) == c >= 55296 /\ c <= 57343

IsCont(b) == b >= 128 /\ b <= 191

\* str.encode('utf-8') of one code point that is not a surrogate
Utf8Char(c) ==
    IF c < 128 THEN << c >>
    ELSE IF c < 2048 THEN << 192 + (c \div 64), 128 + (c % 64) >>
    ELSE IF c < 65536 THEN << 224 + (c \div 4096), 128 + ((c \div 64) % 64), 128 + (c % 64) >>
    ELSE << 240 + (c \div 262144), 128 + ((c \div 4096) % 64),
            128 + ((c \div 64) % 64), 128 + (c % 64) >>

RECURSIVE Utf8Encode(_)
Utf8Encode(str) ==
    IF str = <<>> THEN <<>> ELSE Utf8Char(Head(str)) \o Utf8Encode(Tail(str))

\* s.encode('utf-8') raises UnicodeEncodeError exactly on a surrogate code point
Utf8Encodable(str) == \A i \in 1..Len(str) : ~IsSurrogate(str[i])

\* one step of bytes.decode('utf-8', errors='ignore') at index i (1-based):
\* the code points it yields and the bytes it consumes; a malformed or
\* truncated sequence is dropped up to its last well-formed byte
Utf8Step(raw, i) ==
    LET n  == Len(raw)
        b0 == raw[i]
        b1ok(lo, hi) == i + 1 <= n /\ raw[i + 1] >= lo /\ raw[i + 1] <= hi
        b2ok == i + 2 <= n /\ IsCont(raw[i + 2])
        b3ok == i + 3 <= n /\ IsCont(raw[i + 3])
        lo1  == IF b0 = 224 THEN 160 ELSE IF b0 = 240 THEN 144 ELSE 128
        hi1  == IF b0 = 237 THEN 159 ELSE IF b0 = 244 THEN 143 ELSE 191
        Drop(k) == [chars |-> <<>>, n |-> k]
    IN  IF b0 < 128 THEN [chars |-> << b0 >>, n |-> 1]
        ELSE IF b0 >= 194 /\ b0 <= 223 THEN
            IF b1ok(128, 191)
            THEN [chars |-> << (b0 - 192) * 64 + (raw[i + 1] - 128) >>, n |-> 2]
            ELSE Drop(1)
        ELSE IF b0 >= 224 /\ b0 <= 239 THEN
            IF ~b1ok(lo1, hi1) THEN Drop(1)
            ELSE IF ~b2ok THEN Drop(2)
            ELSE [chars |-> << (b0 - 224) * 4096 + (raw[i + 1] - 128) * 64
                               + (raw[i + 2] - 128) >>, n |-> 3]
        ELSE IF b0 >= 240 /\ b0 <= 244 THEN
            IF ~b1ok(lo1, hi1) THEN Drop(1)
            ELSE IF ~b2ok THEN Drop(2)
            ELSE IF ~b3ok THEN Drop(3)
            ELSE [chars |-> << (b0 - 240) * 262144 + (raw[i + 1] - 128) * 4096
                               + (raw[i + 2] - 128) * 64 + (raw[i + 3] - 128) >>, n |-> 4]
        ELSE Drop(1)

\* bytes.decode('utf-8', errors='ignore') from index i: a run of ASCII bytes
\* decodes to itself, every other byte starts one step
RECURSIVE Utf8DecodeFrom(_, _)
Utf8DecodeFrom(raw, i) ==
    LET high == {j \in i..Len(raw) : raw[j] >= 128}
    IN  IF high = {} THEN SubSeq(raw, i, Len(raw))
        ELSE LET j  == CHOOSE k \in high : \A l \in high : k <= l
                 st == Utf8Step(raw, j)
             IN  SubSeq(raw, i, j - 1) \o st.chars \o Utf8DecodeFrom(raw, j + st.n)

\* str.encode('utf-16-le', errors='ignore'): surrogate code points are dropped
Utf16Char(c) ==
    IF IsSurrogate(c) THEN <<>>
    ELSE IF c < 65536 THEN << c % 256, c \div 256 >>
    ELSE LET v  == c - 65536
             hs == 55296 + (v \div 1024)
             ls == 56320 + (v % 1024)
         IN  << hs % 256, hs \div 256, ls % 256, ls \div 256 >>

RECURSIVE Utf16Encode(_)
Utf16Encode(str) ==
    IF str = <<>> THEN <<>> ELSE Utf16Char(Head(str)) \o Utf16Encode(Tail(str))

\* bytes.decode('utf-16-le', errors='ignore'): an unpaired surrogate and a
\* trailing odd byte are dropped
RECURSIVE Utf16DecodeFrom(_, _)
Utf16DecodeFrom(raw, i) ==
    IF i + 1 > Len(raw) THEN <<>>
    ELSE LET u == raw[i] + 256 * raw[i + 1]
             hasNext == i + 3 <= Len(raw)
             u2 == IF hasNext THEN raw[i + 2] + 256 * raw[i + 3] ELSE 0
         IN  IF ~IsSurrogate(u) THEN << u >> \o Utf16DecodeFrom(raw, i + 2)
             ELSE IF u <= 56319 /\ hasNext /\ u2 >= 56320 /\ u2 <= 57343
                  THEN << 65536 + (u - 55296) * 1024 + (u2 - 56320) >>
                       \o Utf16DecodeFrom(raw, i + 4)
                  ELSE Utf16DecodeFrom(raw, i + 2)

\* str.rstrip('\x00')
RStripNul(str) ==
    LET kept == {i \in 1..Len(str) : str[i] # 0}
    IN  IF kept = {} THEN <<>>
        ELSE SubSeq(str, 1, CHOOSE k \in kept : \A l \in kept : l <= k)

(***************************************************************************)
(* The FString codec.                                                       *)
(***************************************************************************)
_read_string(data, offset) ==
    LET n == _read_i32(data, offset)
    IN  IF ~n.ok THEN n
        ELSE IF n.val = 0 THEN Ok(<<>>, n.off)
        ELSE IF n.val < 0
             THEN LET nbytes == (-n.val) * 2
                      raw == Slice(data, n.off, n.off + nbytes)
                  IN  Ok(RStripNul(Utf16DecodeFrom(raw, 1)), n.off + nbytes)
             ELSE LET raw == Slice(data, n.off, n.off + n.val)
                  IN  Ok(RStripNul(Utf8DecodeFrom(raw, 1)), n.off + n.val)

\* the branch of _write_string taken when s.encode('utf-8') raises: the
\* positive length has already been appended when the handler runs
WriteStringFallback(data, str) ==
    _write_i32(_write_i32(data, Len(str) + 1), -(Len(str) * 2 + 1))
        \o Utf16Encode(str) \o << 0, 0 >>

_write_string(data, str) ==
    IF str = <<>> THEN _write_i32(data, 0)
    ELSE IF Utf8Encodable(str)
         THEN _write_i32(data, Len(str) + 1) \o Utf8Encode(str) \o << 0 >>
         ELSE WriteStringFallback(data, str)

(***************************************************************************)
(* The string codec driven by a client: write one string behind an          *)
(* arbitrary prefix, then read it back from the place it was written at.    *)
(***************************************************************************)
\* NUL, 'A', U+00E9, U+20AC and an unpaired surrogate
Alphabet == {0, 65, 233, 8364, 55296}

RECURSIVE SeqsUpTo(_, _)
SeqsUpTo(S, n) ==
    IF n = 0 THEN { <<>> }
    ELSE LET shorter == SeqsUpTo(S, n - 1)
         IN  shorter \cup { Append(t, c) : t \in shorter, c \in S }

Strings == SeqsUpTo(Alphabet, MaxStrLen)

Prefixes == { <<>>, << 255 >> }

StrIdle ==
    /\ s = <<>>
    /\ sdata = <<>>
    /\ sstart = 0
    /\ sres = Fail("")
    /\ spc = "idle"

WriteString ==
    /\ spc = "start"
    /\ sdata' = _write_string(sdata, s)
    /\ spc' = "written"
    /\ UNCHANGED <<s, sstart, sres>>
    /\ UNCHANGED << guidVars, envVars, propVars, fileVars, hdrVars, webVars >>

ReadString ==
    /\ spc = "written"
    /\ sres' = _read_string(sdata, sstart)
    /\ spc' = "read"
    /\ UNCHANGED <<s, sdata, sstart>>
    /\ UNCHANGED << guidVars, envVars, propVars, fileVars, hdrVars, webVars >>

NextStr == WriteString \/ ReadString

(***************************************************************************)
(* The GUID codec.                                                          *)
(***************************************************************************)
\* one character of bytes.hex(): lowercase
HexDigit(n) == IF n < 10 THEN 48 + n ELSE 87 + n

\* bytes.hex()
RECURSIVE Hex(_)
Hex(bs) ==
    IF bs = <<>> THEN <<>>
    ELSE << HexDigit(Head(bs) \div 16), HexDigit(Head(bs) % 16) >> \o Hex(Tail(bs))

\* seq[::-1]
Reverse(q) == [i \in 1..Len(q) |-> q[Len(q) + 1 - i]]

\* _read_guid with the third group rendered in storage order
ReadGuidThirdGroupPlain(data, offset) ==
    LET guid == Slice(data, offset, offset + 16)
    IN  IF Len(guid) # 16 THEN Ok(<<>>, offset + 16)
        ELSE Ok(Hex(Reverse(SubSeq(guid, 1, 4))) \o << 45 >>
                \o Hex(Reverse(SubSeq(guid, 5, 6))) \o << 45 >>
                \o Hex(SubSeq(guid, 7, 8)) \o << 45 >>
                \o Hex(SubSeq(guid, 9, 10)) \o << 45 >>
                \o Hex(SubSeq(guid, 11, 16)), offset + 16)

_read_guid(data, offset) ==
    LET guid == Slice(data, offset, offset + 16)
    IN  IF Len(guid) # 16 THEN Ok(<<>>, offset + 16)
        ELSE Ok(Hex(Reverse(SubSeq(guid, 1, 4))) \o << 45 >>
                \o Hex(Reverse(SubSeq(guid, 5, 6))) \o << 45 >>
                \o Hex(Reverse(SubSeq(guid, 7, 8))) \o << 45 >>
                \o Hex(SubSeq(guid, 9, 10)) \o << 45 >>
                \o Hex(SubSeq(guid, 11, 16)), offset + 16)

\* the value of a hexadecimal digit character, -1 for any other character
HexValue(c) ==
    IF c >= 48 /\ c <= 57 THEN c - 48
    ELSE IF c >= 97 /\ c <= 102 THEN c - 87
    ELSE IF c >= 65 /\ c <= 70 THEN c - 55
    ELSE -1

IsAsciiSpace(c) == c \in {9, 10, 11, 12, 13, 32}

\* bytes.fromhex(): pairs of hexadecimal digits of either case, ASCII
\* whitespace skipped between pairs, ValueError (ok = FALSE) otherwise
RECURSIVE FromHexFrom(_, _)
FromHexFrom(str, i) ==
    IF i > Len(str) THEN Ok(<<>>, 0)
    ELSE IF IsAsciiSpace(str[i]) THEN FromHexFrom(str, i + 1)
    ELSE IF i + 1 > Len(str) \/ HexValue(str[i]) < 0 \/ HexValue(str[i + 1]) < 0
         THEN Fail("ValueError")
    ELSE LET rest == FromHexFrom(str, i + 2)
         IN  IF ~rest.ok THEN rest
             ELSE Ok(<< 16 * HexValue(str[i]) + HexValue(str[i + 1]) >> \o rest.val, 0)

FromHex(str) == FromHexFrom(str, 1)

\* str.split(sep) for a one-character separator
RECURSIVE SplitFrom(_, _, _, _)
SplitFrom(str, sep, i, cur) ==
    IF i > Len(str) THEN << cur >>
    ELSE IF str[i] = sep THEN << cur >> \o SplitFrom(str, sep, i + 1, <<>>)
    ELSE SplitFrom(str, sep, i + 1, Append(cur, str[i]))

Split(str, sep) == SplitFrom(str, sep, 1, <<>>)

_write_guid(data, guid) ==
    LET parts == Split(guid, 45)
    IN  IF Len(parts) # 5 THEN data \o Repeat(0, 16)
        ELSE LET p1 == FromHex(parts[1])
                 p2 == FromHex(parts[2])
                 p3 == FromHex(parts[3])
                 p4 == FromHex(parts[4])
                 p5 == FromHex(parts[5])
             IN  IF /\ p1.ok /\ p2.ok /\ p3.ok /\ p4.ok /\ p5.ok
                    /\ Len(p1.val) = 4 /\ Len(p2.val) = 2 /\ Len(p3.val) = 2
                    /\ Len(p4.val) = 2 /\ Len(p5.val) = 6
                 THEN data \o Reverse(p1.val) \o Reverse(p2.val) \o Reverse(p3.val)
                           \o p4.val \o p5.val
                 ELSE data \o Repeat(0, 16)

(***************************************************************************)
(* The GUID codec driven by a client, in both directions: a 16-byte block   *)
(* is rendered and written back, a GUID string is written and read back.    *)
(***************************************************************************)
\* 00 11 22 33 44 55 66 77 88 99 AA BB CC DD EE FF
SampleBlock == << 0, 17, 34, 51, 68, 85, 102, 119, 136, 153, 170, 187, 204, 221, 238, 255 >>

\* "33221100-5544-7766-8899-aabbccddeeff"
SampleGuid ==
    << 51, 51, 50, 50, 49, 49, 48, 48, 45, 53, 53, 52, 52, 45, 55, 55, 54, 54, 45,
       56, 56, 57, 57, 45, 97, 97, 98, 98, 99, 99, 100, 100, 101, 101, 102, 102 >>

\* every block that differs from the sample block in at most one byte
GuidBlocks == { [SampleBlock EXCEPT ![p] = b] : p \in 1..16, b \in 0..255 }

\* the characters tried at every position of the sample string: the
\* hexadecimal digits of both cases, '-', ' ' and 'g'
GuidChars == (48..57) \cup (97..103) \cup (65..70) \cup {45, 32}

\* every string that differs from the sample string in at most one
\* character, the sample string in upper case, and strings of other lengths
GuidStrings ==
    { [SampleGuid EXCEPT ![p] = c] : p \in 1..36, c \in GuidChars }
    \cup { [i \in 1..36 |-> IF SampleGuid[i] >= 97 THEN SampleGuid[i] - 32 ELSE SampleGuid[i]] }
    \cup { <<>>, SubSeq(SampleGuid, 1, 35), Append(SampleGuid, 48) }

GuidInputs ==
    { [kind |-> "bytes", v |-> b] : b \in GuidBlocks }
    \cup { [kind |-> "str", v |-> g] : g \in GuidStrings }

GuidIdle ==
    /\ gin = [kind |-> "none", v |-> <<>>]
    /\ gbytes = <<>>
    /\ gtext = <<>>
    /\ gpc = "idle"

\* the client calls _read_guid on the bytes it holds
ReadGuid ==
    /\ \/ gpc = "start" /\ gin.kind = "bytes" /\ gpc' = "half"
       \/ gpc = "half" /\ gin.kind = "str" /\ gpc' = "done"
    /\ gtext' = _read_guid(gbytes, 0).val
    /\ UNCHANGED <<gin, gbytes>>
    /\ UNCHANGED << strVars, envVars, propVars, fileVars, hdrVars, webVars >>

\* the client calls _write_guid on the string it holds
WriteGuid ==
    /\ \/ gpc = "start" /\ gin.kind = "str" /\ gpc' = "half"
       \/ gpc = "half" /\ gin.kind = "bytes" /\ gpc' = "done"
    /\ gbytes' = _write_guid(<<>>, gtext)
    /\ UNCHANGED <<gin, gtext>>
    /\ UNCHANGED << strVars, envVars, propVars, fileVars, hdrVars, webVars >>

NextGuid == ReadGuid \/ WriteGuid

(***************************************************************************)
(* The compression envelope.  The codecs themselves (zlib, gzip, lz4.frame, *)
(* zstandard) are libraries outside the package: what a codec does with a   *)
(* buffer is drawn once per buffer (lib), and a codec can only succeed on a *)
(* buffer that opens with the framing of its format.                        *)
(***************************************************************************)
MAGIC == << 71, 86, 65, 83 >>

StartsWith(data, prefix) ==
    Len(data) >= Len(prefix) /\ SubSeq(data, 1, Len(prefix)) = prefix

Codecs == {"zlib", "deflate", "gzip", "lz4", "zstd"}

GzipMagic == << 31, 139 >>

ZstdMagic == << 40, 181, 47, 253 >>

Lz4Magic == << 4, 34, 77, 24 >>

\* a skippable frame (5x 2A 4D 18), which the LZ4 and Zstandard frame
\* decoders step over
SkippableFrame(data) ==
    /\ Len(data) >= 4
    /\ data[1] \div 16 = 5 /\ data[2] = 42 /\ data[3] = 77 /\ data[4] = 24

\* the framing with a raw DEFLATE decoder that takes any first block type
FramingDeflateAny(c, data) ==
    CASE c = "zlib" ->
            /\ Len(data) >= 2
            /\ data[1] % 16 = 8 /\ data[1] \div 16 <= 7
            /\ (256 * data[1] + data[2]) % 31 = 0
      [] c = "deflate" -> Len(data) >= 1
      [] c = "gzip" -> data = <<>> \/ StartsWith(data, GzipMagic)
      [] c = "lz4" -> data = <<>> \/ StartsWith(data, Lz4Magic) \/ SkippableFrame(data)
      [] c = "zstd" -> data = <<>> \/ StartsWith(data, ZstdMagic) \/ SkippableFrame(data)

\* the opening bytes without which the codec's library rejects the buffer:
\* zlib needs a CMF/FLG pair (method 8, window <= 7, multiple of 31), raw
\* DEFLATE a first block of type 0..2, gzip its magic (gzip.decompress
\* returns b'' for an empty buffer), LZ4 and Zstandard a frame magic
Framing(c, data) ==
    CASE c = "zlib" ->
            /\ Len(data) >= 2
            /\ data[1] % 16 = 8 /\ data[1] \div 16 <= 7
            /\ (256 * data[1] + data[2]) % 31 = 0
      [] c = "deflate" -> Len(data) >= 1 /\ (data[1] \div 2) % 4 # 3
      [] c = "gzip" -> data = <<>> \/ StartsWith(data, GzipMagic)
      [] c = "lz4" -> data = <<>> \/ StartsWith(data, Lz4Magic) \/ SkippableFrame(data)
      [] c = "zstd" -> data = <<>> \/ StartsWith(data, ZstdMagic) \/ SkippableFrame(data)

\* "GVAS" 02 00, an empty buffer, and two bytes that are not a save
Plaintexts == { MAGIC \o << 2, 0 >>, <<>>, << 1, 2 >> }

\* what one codec can do with a buffer: return bytes, raise, or (lz4, zstd)
\* be absent because its optional package did not import
CodecOutcomes(c, data) ==
    { [st |-> "fail", out |-> <<>>] }
    \cup (IF c \in {"lz4", "zstd"} THEN { [st |-> "missing", out |-> <<>>] } ELSE {})
    \cup (IF Framing(c, data) THEN { [st |-> "out", out |-> o] : o \in Plaintexts } ELSE {})

\* every behaviour of the five libraries on one buffer
LibFor(data) ==
    { [zlib |-> z, deflate |-> d, gzip |-> g, lz4 |-> l4, zstd |-> zs] :
        z \in CodecOutcomes("zlib", data), d \in CodecOutcomes("deflate", data),
        g \in CodecOutcomes("gzip", data), l4 \in CodecOutcomes("lz4", data),
        zs \in CodecOutcomes("zstd", data) }

\* the result of decompress_payload: the bytes returned, or the message of
\* the DecompressionError raised, and the codecs attempted in order
Returned(out, tried) == [ok |-> TRUE, out |-> out, err |-> "", tried |-> tried]

Raised(msg, tried) == [ok |-> FALSE, out |-> <<>>, err |-> msg, tried |-> tried]

FailedMessage(c) ==
    CASE c = "zlib" -> "zlib failed"
      [] c = "deflate" -> "deflate failed"
      [] c = "gzip" -> "gzip failed"
      [] c = "lz4" -> "lz4 failed"
      [] c = "zstd" -> "zstd failed"

MissingMessage(c) ==
    CASE c = "lz4" -> "lz4 not available. Install 'lz4' package."
      [] c = "zstd" -> "zstd not available. Install 'zstandard' package."

\* _try_zlib, _try_deflate_raw, _try_gzip, _try_lz4, _try_zstd: the bytes,
\* or None (ok = FALSE) when the codec raises or its package is absent
TryCodec(c, l) == IF l[c].st = "out" THEN Ok(l[c].out, 0) ELSE Fail("None")

\* an explicit method that tries the remaining codecs when its own fails
DecompressExplicitThenOthers(m, l) ==
    IF l[m].st = "out" THEN Returned(l[m].out, << m >>)
    ELSE LET others == { c \in Codecs : c # m /\ l[c].st = "out" }
         IN  IF others = {} THEN Raised(FailedMessage(m), << m >>)
             ELSE LET c == CHOOSE x \in others : TRUE
                  IN  Returned(l[c].out, << m, c >>)

\* an explicit method: that codec alone
DecompressExplicit(m, l) ==
    IF l[m].st = "missing" THEN Raised(MissingMessage(m), <<>>)
    ELSE IF l[m].st = "out" THEN Returned(l[m].out, << m >>)
    ELSE Raised(FailedMessage(m), << m >>)

\* the auto heuristic with raw deflate tried before zlib
AutoAttemptsDeflateFirst(data) ==
    (IF Len(data) >= 2 /\ SubSeq(data, 1, 2) = GzipMagic THEN << "gzip" >> ELSE <<>>)
    \o (IF Len(data) >= 4 /\ SubSeq(data, 1, 4) = ZstdMagic THEN << "zstd" >> ELSE <<>>)
    \o (IF Len(data) >= 4 /\ SubSeq(data, 1, 4) = Lz4Magic THEN << "lz4" >> ELSE <<>>)
    \o << "deflate", "zlib", "gzip", "lz4", "zstd" >>

\* the attempts of the auto heuristic, in program order: the three magic
\* checks, then zlib, raw deflate, gzip, lz4, zstd
AutoAttempts(data) ==
    (IF Len(data) >= 2 /\ SubSeq(data, 1, 2) = GzipMagic THEN << "gzip" >> ELSE <<>>)
    \o (IF Len(data) >= 4 /\ SubSeq(data, 1, 4) = ZstdMagic THEN << "zstd" >> ELSE <<>>)
    \o (IF Len(data) >= 4 /\ SubSeq(data, 1, 4) = Lz4Magic THEN << "lz4" >> ELSE <<>>)
    \o << "zlib", "deflate", "gzip", "lz4", "zstd" >>

\* "out = _try_x(raw_bytes); if out is not None: return out", attempt by attempt
RECURSIVE DecompressAuto(_, _, _)
DecompressAuto(attempts, l, tried) ==
    IF attempts = <<>>
    THEN Raised("Could not decompress payload.", tried)
    ELSE LET c == Head(attempts)
             r == TryCodec(c, l)
         IN  IF r.ok THEN Returned(r.val, Append(tried, c))
             ELSE DecompressAuto(Tail(attempts), l, Append(tried, c))

\* decompress_payload that runs the auto heuristic for "none" as well
DecompressPayloadNoneAsAuto(data, m, l) ==
    IF m \in Codecs THEN DecompressExplicit(m, l)
    ELSE DecompressAuto(AutoAttempts(data), l, <<>>)

\* decompress_payload(raw_bytes, method), with method already lower-cased;
\* any selector that names neither "none" nor a codec falls through to auto
decompress_payload(data, m, l) ==
    IF m = "none" THEN Returned(data, <<>>)
    ELSE IF m \in Codecs THEN DecompressExplicit(m, l)
    ELSE DecompressAuto(AutoAttempts(data), l, <<>>)

(***************************************************************************)
(* The envelope driven by a client: one call, and then the result fed       *)
(* through the same method again.                                           *)
(***************************************************************************)
Methods == {"auto", "none", "zlib", "deflate", "gzip", "lz4", "zstd", "other"}

\* buffers opening with each framing, plain GVAS data, and the plaintexts
EnvelopeBuffers ==
    { GzipMagic \o << 8, 0 >>,          \* gzip
      ZstdMagic \o << 0 >>,             \* zstd frame
      Lz4Magic \o << 64 >>,             \* lz4 frame
      << 120, 156, 3, 0 >>,             \* zlib (78 9C), also a stored deflate block
      << 3, 0 >>,                       \* raw deflate
      << 80, 42, 77, 24, 0 >>,          \* skippable frame
      << 31 >>,                         \* half a gzip magic
      MAGIC \o << 2, 0, 0, 0 >> }       \* plain GVAS
    \cup Plaintexts

EnvIdle ==
    /\ raw_bytes = <<>>
    /\ method = "none"
    /\ lib = [c \in Codecs |-> [st |-> "fail", out |-> <<>>]]
    /\ dres = Raised("", <<>>)
    /\ dorig = <<>>
    /\ dcalls = 0

\* the first call
Decompress ==
    /\ dcalls = 0
    /\ dres' = decompress_payload(raw_bytes, method, lib)
    /\ dcalls' = 1
    /\ UNCHANGED <<raw_bytes, method, lib, dorig>>
    /\ UNCHANGED << strVars, guidVars, propVars, fileVars, hdrVars, webVars >>

\* the bytes returned are handed to decompress_payload again
DecompressAgain ==
    /\ dcalls >= 1 /\ dcalls < MaxCalls
    /\ dres.ok
    /\ raw_bytes' = dres.out
    /\ lib' \in LibFor(raw_bytes')
    /\ raw_bytes' = raw_bytes => lib' = lib
    /\ dres' = decompress_payload(raw_bytes', method, lib')
    /\ dcalls' = dcalls + 1
    /\ UNCHANGED <<method, dorig>>
    /\ UNCHANGED << strVars, guidVars, propVars, fileVars, hdrVars, webVars >>

NextEnv == Decompress \/ DecompressAgain

(***************************************************************************)
(* The string literals of the property codec, as code points.               *)
(***************************************************************************)
STR ==
    [ None |-> << 78, 111, 110, 101 >>,
      ArrayProperty |-> << 65, 114, 114, 97, 121, 80, 114, 111, 112, 101, 114, 116, 121 >>,
      BoolProperty |-> << 66, 111, 111, 108, 80, 114, 111, 112, 101, 114, 116, 121 >>,
      ByteProperty |-> << 66, 121, 116, 101, 80, 114, 111, 112, 101, 114, 116, 121 >>,
      DoubleProperty |-> << 68, 111, 117, 98, 108, 101, 80, 114, 111, 112, 101, 114, 116, 121 >>,
      FloatProperty |-> << 70, 108, 111, 97, 116, 80, 114, 111, 112, 101, 114, 116, 121 >>,
      Int64Property |-> << 73, 110, 116, 54, 52, 80, 114, 111, 112, 101, 114, 116, 121 >>,
      IntProperty |-> << 73, 110, 116, 80, 114, 111, 112, 101, 114, 116, 121 >>,
      MapProperty |-> << 77, 97, 112, 80, 114, 111, 112, 101, 114, 116, 121 >>,
      NameProperty |-> << 78, 97, 109, 101, 80, 114, 111, 112, 101, 114, 116, 121 >>,
      ObjectProperty |-> << 79, 98, 106, 101, 99, 116, 80, 114, 111, 112, 101, 114, 116, 121 >>,
      StrProperty |-> << 83, 116, 114, 80, 114, 111, 112, 101, 114, 116, 121 >>,
      StructProperty |-> << 83, 116, 114, 117, 99, 116, 80, 114, 111, 112, 101, 114, 116, 121 >>,
      TextProperty |-> << 84, 101, 120, 116, 80, 114, 111, 112, 101, 114, 116, 121 >>,
      UInt64Property |-> << 85, 73, 110, 116, 54, 52, 80, 114, 111, 112, 101, 114, 116, 121 >>,
      Quat |-> << 81, 117, 97, 116 >>,
      Vector |-> << 86, 101, 99, 116, 111, 114 >>,
      DateTime |-> << 68, 97, 116, 101, 84, 105, 109, 101 >>,
      Guid |-> << 71, 117, 105, 100 >>,
      X |-> << 88 >>,
      Y |-> << 89 >>,
      Z |-> << 90 >>,
      W |-> << 87 >>,
      Ticks |-> << 84, 105, 99, 107, 115 >>,
      Value |-> << 86, 97, 108, 117, 101 >> ]

(***************************************************************************)
(* The property codec: readers.  A property node is a record whose cls is   *)
(* the name of its Python class; value always holds a sequence (a string,   *)
(* raw bytes, or the bytes of a number TLC's integers cannot hold),         *)
(* ivalue an integer, bvalue a boolean.                                     *)
(***************************************************************************)
\* "r, offset = read(...)" followed by the rest K of the function: an
\* exception raised by the read leaves the function at once
Then(r, K(_)) == IF ~r.ok THEN r ELSE K(r)

\* data[offset] for 0 <= offset: IndexError past the end of the buffer
ByteAt(data, offset) ==
    IF offset < Len(data) THEN Ok(data[offset + 1], offset + 1) ELSE Fail("IndexError")

\* "assert (data[offset] == 0); offset += 1"
ExpectNul(data, offset) ==
    Then(ByteAt(data, offset), LAMBDA b : IF b.val # 0 THEN Fail("AssertionError") ELSE b)

\* "assert (cond)" followed by the rest of the function
Asserting(cond, r) == IF cond THEN r ELSE Fail("AssertionError")

\* struct.unpack_from('<f', data, offset): the float is named by its four
\* bytes; a signalling NaN comes out of the conversion to a Python float
\* with its quiet bit set
UnpackF32(data, offset) ==
    IF offset + 4 > Len(data) THEN Fail("struct.error")
    ELSE LET b == SubSeq(data, offset + 1, offset + 4)
             isNaN == /\ b[4] % 128 = 127 /\ b[3] >= 128
                      /\ (b[3] > 128 \/ b[2] > 0 \/ b[1] > 0)
             quiet == (b[3] \div 64) % 2 = 1
         IN  Ok(IF isNaN /\ ~quiet THEN << b[1], b[2], b[3] + 64, b[4] >> ELSE b,
                offset + 4)

\* struct.pack('<f', float(v)) of a float named by its bytes
PackF32(v) == v

\* struct.unpack_from of '<q', '<Q' and '<d': the number is named by its
\* eight bytes, which struct.pack gives back
Unpack8(data, offset) ==
    IF offset + 8 > Len(data) THEN Fail("struct.error")
    ELSE Ok(SubSeq(data, offset + 1, offset + 8), offset + 8)

Pack8(v) == v

\* what _read_property returns in place of a property at a sentinel
NoProperty == [cls |-> "None"]

\* Property.__subclasses__(), the keys of PropertyFactory._TYPE_MAP
Classes ==
    {"ArrayProperty", "BoolProperty", "ByteProperty", "DoubleProperty", "FloatProperty",
     "Int64Property", "IntProperty", "MapProperty", "NameProperty", "ObjectProperty",
     "StrProperty", "StructProperty", "TextProperty", "UInt64Property"}

\* PropertyFactory._TYPE_MAP.get(prop_type)
ClassOf(prop_type) ==
    IF \E c \in Classes : STR[c] = prop_type
    THEN CHOOSE c \in Classes : STR[c] = prop_type
    ELSE "unknown"

\* FloatProperty(...), Int64Property(...), StrProperty(...): the constructor
\* of a class whose node holds one value
Leaf(cls, name, tag, size, value) ==
    [cls |-> cls, name |-> name, tag |-> tag, size |-> size, value |-> value]

BoolProperty_from_bytes(name, prop_size, prop_tag, data, offset) ==
    Asserting(prop_size = 0,
        Then(ByteAt(data, offset), LAMBDA v :
        Then(ExpectNul(data, v.off), LAMBDA z :
            Ok([cls |-> "BoolProperty", name |-> name, tag |-> prop_tag,
                size |-> prop_size, bvalue |-> (v.val # 0)], z.off))))

ByteProperty_from_bytes(name, prop_size, prop_tag, data, offset) ==
    Then(_read_string(data, offset), LAMBDA guid :
    Then(ExpectNul(data, guid.off), LAMBDA z :
        IF prop_size = 1
        THEN Then(ByteAt(data, z.off), LAMBDA v :
                 Ok([cls |-> "ByteProperty", name |-> name, tag |-> prop_tag,
                     size |-> prop_size, guid |-> guid.val, ivalue |-> v.val], v.off))
        ELSE Then(_read_string(data, z.off), LAMBDA v :
                 Ok([cls |-> "ByteProperty", name |-> name, tag |-> prop_tag,
                     size |-> prop_size, guid |-> guid.val, value |-> v.val], v.off))))

\* DoubleProperty, Int64Property and UInt64Property
Fixed8_from_bytes(cls, name, prop_size, prop_tag, data, offset) ==
    Asserting(prop_size = 8,
        Then(Unpack8(data, offset), LAMBDA v :
            Ok(Leaf(cls, name, prop_tag, prop_size, v.val), v.off)))

FloatProperty_from_bytes(name, prop_size, prop_tag, data, offset) ==
    Asserting(prop_size = 4,
        Then(UnpackF32(data, offset), LAMBDA v :
            Ok(Leaf("FloatProperty", name, prop_tag, prop_size, v.val), v.off)))

\* IntProperty.from_bytes without "assert (prop_size == 4)"
IntFromBytesAnySize(name, prop_size, prop_tag, data, offset) ==
    Then(_read_i32(data, offset), LAMBDA v :
    Then(ByteAt(data, v.off), LAMBDA t :
        Ok([cls |-> "IntProperty", name |-> name, tag |-> prop_tag,
            size |-> prop_size, ivalue |-> v.val, int_tag |-> t.val % 256], t.off)))

IntProperty_from_bytes(name, prop_size, prop_tag, data, offset) ==
    Asserting(prop_size = 4,
        Then(_read_i32(data, offset), LAMBDA v :
        Then(ByteAt(data, v.off), LAMBDA t :
            Ok([cls |-> "IntProperty", name |-> name, tag |-> prop_tag,
                size |-> prop_size, ivalue |-> v.val, int_tag |-> t.val % 256], t.off))))

MapProperty_from_bytes(name, prop_size, prop_tag, data, offset) ==
    Then(_read_string(data, offset), LAMBDA key_type :
    Then(_read_string(data, key_type.off), LAMBDA value_type :
    Then(ExpectNul(data, value_type.off), LAMBDA z :
    Then(_read_u32(data, z.off), LAMBDA map_size :
    Then(ExpectNul(data, map_size.off + prop_size - 5), LAMBDA z2 :
        Ok([cls |-> "MapProperty", name |-> name, tag |-> prop_tag, size |-> prop_size,
            key_type |-> key_type.val, value_type |-> value_type.val,
            map_size |-> map_size.val,
            raw_bytes |-> Slice(data, map_size.off, map_size.off + prop_size - 5)],
           z2.off))))))

\* NameProperty and ObjectProperty: the size must be len(value) + 5
NameLike_from_bytes(cls, name, prop_size, prop_tag, data, offset) ==
    Then(ExpectNul(data, offset), LAMBDA z :
    Then(_read_string(data, z.off), LAMBDA v :
        Asserting(Len(v.val) + 4 + 1 = prop_size,
            Ok(Leaf(cls, name, prop_tag, prop_size, v.val), v.off))))

StrProperty_from_bytes(name, prop_size, prop_tag, data, offset) ==
    Then(ExpectNul(data, offset), LAMBDA z :
    Then(_read_string(data, z.off), LAMBDA v :
        Asserting(prop_size = Len(v.val) + 4 + (IF v.val # <<>> THEN 1 ELSE 0),
            Ok(Leaf("StrProperty", name, prop_tag, prop_size, v.val), v.off))))

TextProperty_from_bytes(name, prop_size, prop_tag, data, offset) ==
    Ok(Leaf("TextProperty", name, prop_tag, prop_size, Slice(data, offset, offset + prop_size)),
       offset + prop_size + 1)

\* "for i in range(array_size): value, offset = read(data, offset)" with
\* read one of _read_string, _read_i32 and struct.unpack_from('<f', ...)
RECURSIVE ReadValues(_, _, _, _, _)
ReadValues(kind, data, offset, n, values) ==
    IF n <= 0 THEN Ok(values, offset)
    ELSE Then(CASE kind = "str" -> _read_string(data, offset)
                [] kind = "i32" -> _read_i32(data, offset)
                [] kind = "f32" -> UnpackF32(data, offset),
              LAMBDA v : ReadValues(kind, data, v.off, n - 1, Append(values, v.val)))

\* the fields of a Quat (X, Y, Z, W) or a Vector (X, Y, Z): one float each
FloatFields(names, data, offset) ==
    [i \in 1..Len(names) |->
        Leaf("FloatProperty", STR[names[i]], 0, 4, UnpackF32(data, offset + 4 * (i - 1)).val)]

RECURSIVE _read_property(_, _)
RECURSIVE create_property(_, _, _, _, _, _)
RECURSIVE ReadNested(_, _, _, _)
RECURSIVE ArrayProperty_from_bytes(_, _, _, _, _)
RECURSIVE StructProperty_from_bytes(_, _, _, _, _)

\* the loop of StructProperty.from_bytes and of ArrayProperty.from_bytes
\* over StructProperty elements: "while offset < end_offset: ...; if value
\* is None: break"
ReadNested(data, offset, end_offset, values) ==
    IF offset >= end_offset THEN Ok(values, offset)
    ELSE Then(_read_property(data, offset), LAMBDA r :
             IF r.val = NoProperty THEN Ok(values, r.off)
             ELSE ReadNested(data, r.off, end_offset, Append(values, r.val)))

ArrayProperty_from_bytes(name, prop_size, prop_tag, data, offset) ==
    Then(_read_string(data, offset), LAMBDA inner_type :
    Then(ExpectNul(data, inner_type.off), LAMBDA z :
    Then(_read_u32(data, z.off), LAMBDA array_size :
    Then(IF inner_type.val = STR.ByteProperty
         THEN Ok(Slice(data, array_size.off, array_size.off + prop_size),
                 array_size.off + prop_size - 4)
         ELSE IF inner_type.val \in {STR.StrProperty, STR.NameProperty}
         THEN ReadValues("str", data, array_size.off, array_size.val, <<>>)
         ELSE IF inner_type.val = STR.IntProperty
         THEN ReadValues("i32", data, array_size.off, array_size.val, <<>>)
         ELSE IF inner_type.val = STR.StructProperty
         THEN ReadNested(data, array_size.off, array_size.off + prop_size, <<>>)
         ELSE IF inner_type.val = STR.FloatProperty
         THEN ReadValues("f32", data, array_size.off, array_size.val, <<>>)
         ELSE Ok(Slice(data, array_size.off, array_size.off + prop_size),
                 array_size.off + prop_size),
         LAMBDA values :
             Ok([cls |-> "ArrayProperty", name |-> name, tag |-> prop_tag,
                 size |-> prop_size, inner_type |-> inner_type.val,
                 array_size |-> array_size.val, values |-> values.val], values.off)))))

StructProperty_from_bytes(name, prop_size, prop_tag, data, offset) ==
    Then(_read_string(data, offset), LAMBDA type :
    Then(_read_guid(data, type.off), LAMBDA guid :
    Then(ExpectNul(data, guid.off), LAMBDA z :
    LET off == z.off
        Struct(fields) ==
            [cls |-> "StructProperty", name |-> name, tag |-> prop_tag,
             size |-> prop_size, type |-> type.val, guid |-> guid.val, fields |-> fields]
    IN  IF type.val = STR.Quat THEN
            Asserting(prop_size = 16,
                IF off + 16 > Len(data) THEN Fail("struct.error")
                ELSE Ok(Struct(FloatFields(<< "X", "Y", "Z", "W" >>, data, off)), off + 16))
        ELSE IF type.val = STR.Vector THEN
            Asserting(prop_size = 12,
                IF off + 12 > Len(data) THEN Fail("struct.error")
                ELSE Ok(Struct(FloatFields(<< "X", "Y", "Z" >>, data, off)), off + 12))
        ELSE IF type.val = STR.DateTime THEN
            Asserting(prop_size = 8,
                Then(Unpack8(data, off), LAMBDA ticks :
                    Ok(Struct(<< Leaf("Int64Property", STR.Ticks, 0, 8, ticks.val) >>),
                       ticks.off)))
        ELSE IF type.val = STR.Guid THEN
            Asserting(prop_size = 16,
                IF off + 8 > Len(data) THEN Fail("IndexError")
                ELSE LET raw == Slice(data, off, off + 16)
                         guid_str == Hex(Reverse(SubSeq(raw, 1, 4))) \o << 45 >>
                                     \o Hex(Reverse(SubSeq(raw, 5, 6))) \o << 45 >>
                                     \o Hex(Reverse(SubSeq(raw, 7, 8))) \o << 45 >>
                                     \o Hex(SubSeq(raw, 9, Min(10, Len(raw)))) \o << 45 >>
                                     \o Hex(SubSeq(raw, 11, Len(raw)))
                     IN  Ok(Struct(<< Leaf("StrProperty", STR.Value, 0, 36 + 4 + 1, guid_str) >>),
                            off + 16))
        ELSE Then(ReadNested(data, off, off + prop_size, <<>>), LAMBDA fields :
                 Ok(Struct(fields.val), fields.off)))))

\* PropertyFactory.create_property
create_property(name, prop_type, prop_size, prop_tag, data, offset) ==
    LET cls == ClassOf(prop_type)
    IN  CASE cls = "ArrayProperty" -> ArrayProperty_from_bytes(name, prop_size, prop_tag, data, offset)
          [] cls = "BoolProperty" -> BoolProperty_from_bytes(name, prop_size, prop_tag, data, offset)
          [] cls = "ByteProperty" -> ByteProperty_from_bytes(name, prop_size, prop_tag, data, offset)
          [] cls \in {"DoubleProperty", "Int64Property", "UInt64Property"} ->
                Fixed8_from_bytes(cls, name, prop_size, prop_tag, data, offset)
          [] cls = "FloatProperty" -> FloatProperty_from_bytes(name, prop_size, prop_tag, data, offset)
          [] cls = "IntProperty" -> IntProperty_from_bytes(name, prop_size, prop_tag, data, offset)
          [] cls = "MapProperty" -> MapProperty_from_bytes(name, prop_size, prop_tag, data, offset)
          [] cls \in {"NameProperty", "ObjectProperty"} ->
                NameLike_from_bytes(cls, name, prop_size, prop_tag, data, offset)
          [] cls = "StrProperty" -> StrProperty_from_bytes(name, prop_size, prop_tag, data, offset)
          [] cls = "StructProperty" -> StructProperty_from_bytes(name, prop_size, prop_tag, data, offset)
          [] cls = "TextProperty" -> TextProperty_from_bytes(name, prop_size, prop_tag, data, offset)
          [] OTHER -> Fail("ValueError: Unknown property type")

\* _read_property that leaves the cursor in front of a sentinel it finds
ReadPropertyKeepingSentinel(data, offset) ==
    Then(_read_string(data, offset), LAMBDA prop_name :
        IF prop_name.val = STR.None \/ prop_name.val = <<>>
        THEN Ok(NoProperty, offset)
        ELSE Then(_read_string(data, prop_name.off), LAMBDA prop_type :
             Then(_read_u32(data, prop_type.off), LAMBDA prop_size :
             Then(_read_u32(data, prop_size.off), LAMBDA prop_tag :
                 create_property(prop_name.val, prop_type.val, prop_size.val, prop_tag.val,
                                 data, prop_tag.off)))))

\* _read_property that takes only the name "None" for the sentinel
ReadPropertyNoneOnly(data, offset) ==
    Then(_read_string(data, offset), LAMBDA prop_name :
        IF prop_name.val = STR.None
        THEN Ok(NoProperty, prop_name.off)
        ELSE Then(_read_string(data, prop_name.off), LAMBDA prop_type :
             Then(_read_u32(data, prop_type.off), LAMBDA prop_size :
             Then(_read_u32(data, prop_size.off), LAMBDA prop_tag :
                 create_property(prop_name.val, prop_type.val, prop_size.val, prop_tag.val,
                                 data, prop_tag.off)))))

_read_property(data, offset) ==
    Then(_read_string(data, offset), LAMBDA prop_name :
        IF prop_name.val = STR.None \/ prop_name.val = <<>>
        THEN Ok(NoProperty, prop_name.off)
        ELSE Then(_read_string(data, prop_name.off), LAMBDA prop_type :
             Then(_read_u32(data, prop_type.off), LAMBDA prop_size :
             Then(_read_u32(data, prop_size.off), LAMBDA prop_tag :
                 create_property(prop_name.val, prop_type.val, prop_size.val, prop_tag.val,
                                 data, prop_tag.off)))))

(***************************************************************************)
(* The property codec: writers.  A writer gives back the buffer with the    *)
(* node appended, or the exception the node's to_bytes raises.              *)
(***************************************************************************)
\* prop.size: BoolProperty and FloatProperty override the stored size
SizeOf(prop) ==
    IF prop.cls = "BoolProperty" THEN 0
    ELSE IF prop.cls = "FloatProperty" THEN 4
    ELSE prop.size

\* BoolProperty.to_bytes without the separator byte behind the value
BoolToBytesNoSeparator(data, prop) ==
    Ok(data \o << IF prop.bvalue THEN 1 ELSE 0 >>, 0)

BoolProperty_to_bytes(data, prop) ==
    Ok(data \o << IF prop.bvalue THEN 1 ELSE 0, 0 >>, 0)

ByteProperty_to_bytes(data, prop) ==
    IF SizeOf(prop) = 1
    THEN Ok(data \o << 0, prop.ivalue % 256 >>, 0)
    ELSE Ok(_write_string(data \o << 0 >>, prop.value), 0)

\* DoubleProperty, Int64Property and UInt64Property
Fixed8_to_bytes(data, prop) == Ok(data \o Pack8(prop.value), 0)

FloatProperty_to_bytes(data, prop) == Ok(data \o PackF32(prop.value), 0)

\* IntProperty.to_bytes with a zero byte behind the value instead of the
\* byte that was read
IntToBytesZeroByte(data, prop) ==
    Ok(data \o I32Bytes(prop.ivalue) \o << 0 >>, 0)

IntProperty_to_bytes(data, prop) ==
    Ok(data \o I32Bytes(prop.ivalue) \o << prop.int_tag >>, 0)

\* MapProperty.to_bytes without the separator byte behind the opaque bytes
MapToBytesNoTrailer(data, prop) ==
    Ok(_write_u32(_write_string(_write_string(data, prop.key_type), prop.value_type)
                      \o << 0 >>, prop.map_size)
           \o prop.raw_bytes, 0)

MapProperty_to_bytes(data, prop) ==
    Ok(_write_u32(_write_string(_write_string(data, prop.key_type), prop.value_type)
                      \o << 0 >>, prop.map_size)
           \o prop.raw_bytes \o << 0 >>, 0)

\* NameProperty, ObjectProperty and StrProperty
NameLike_to_bytes(data, prop) == Ok(_write_string(data \o << 0 >>, prop.value), 0)

TextProperty_to_bytes(data, prop) == Ok(data \o prop.value \o << 0 >>, 0)

RECURSIVE WriteStrings(_, _)
WriteStrings(data, values) ==
    IF values = <<>> THEN data
    ELSE WriteStrings(_write_string(data, Head(values)), Tail(values))

RECURSIVE WriteInts(_, _)
WriteInts(data, values) ==
    IF values = <<>> THEN data
    ELSE WriteInts(_write_i32(data, Head(values)), Tail(values))

\* "for v in values: data.extend(struct.pack('<f', float(v)))"
RECURSIVE PackFloats(_)
PackFloats(values) ==
    IF values = <<>> THEN <<>>
    ELSE PackF32(Head(values)) \o PackFloats(Tail(values))

RECURSIVE _write_property(_, _)
RECURSIVE to_bytes(_, _)
RECURSIVE WriteEach(_, _)
RECURSIVE ArrayProperty_to_bytes(_, _)
RECURSIVE StructProperty_to_bytes(_, _)

\* "for val in values: _write_property(data, val)"
WriteEach(data, props) ==
    IF props = <<>> THEN Ok(data, 0)
    ELSE Then(_write_property(data, Head(props)), LAMBDA w : WriteEach(w.val, Tail(props)))

\* the values of a node from_bytes built are bytes exactly when the inner
\* type is ByteProperty or one the reader does not know
ArrayProperty_to_bytes(data, prop) ==
    Then(Ok(_write_i32(_write_string(data, prop.inner_type) \o << 0 >>, prop.array_size), 0),
         LAMBDA d :
             IF prop.inner_type = STR.ByteProperty THEN Ok(d.val \o prop.values, 0)
             ELSE IF prop.inner_type \in {STR.StrProperty, STR.NameProperty}
             THEN Ok(WriteStrings(d.val, prop.values), 0)
             ELSE IF prop.inner_type = STR.IntProperty
             THEN Ok(WriteInts(d.val, prop.values), 0)
             ELSE IF prop.inner_type = STR.StructProperty
             THEN Then(WriteEach(d.val, prop.values), LAMBDA w :
                      Ok(_write_string(w.val, STR.None), 0))
             ELSE IF prop.inner_type = STR.FloatProperty
             THEN Ok(d.val \o PackFloats(prop.values), 0)
             ELSE Ok(d.val \o prop.values, 0))

\* StructProperty.to_bytes that writes the fields of a generic struct and no
\* sentinel behind them
StructToBytesNoSentinel(data, prop) ==
    Then(Ok(_write_guid(_write_string(data, prop.type), prop.guid) \o << 0 >>, 0),
         LAMBDA d :
             IF prop.type \in {STR.Quat, STR.Vector}
             THEN Ok(d.val \o PackFloats([i \in 1..Len(prop.fields) |->
                                             prop.fields[i].value]), 0)
             ELSE WriteEach(d.val, prop.fields))

\* a Quat and a Vector write the floats of their fields, every other struct
\* its fields as properties and, unless there is none, the sentinel
StructProperty_to_bytes(data, prop) ==
    Then(Ok(_write_guid(_write_string(data, prop.type), prop.guid) \o << 0 >>, 0),
         LAMBDA d :
             IF prop.type \in {STR.Quat, STR.Vector}
             THEN Asserting(/\ Len(prop.fields) = (IF prop.type = STR.Quat THEN 4 ELSE 3)
                            /\ \A i \in 1..Len(prop.fields) :
                                   prop.fields[i].cls = "FloatProperty",
                            Ok(d.val \o PackFloats([i \in 1..Len(prop.fields) |->
                                                       prop.fields[i].value]), 0))
             ELSE Then(WriteEach(d.val, prop.fields), LAMBDA w :
                      IF Len(prop.fields) > 0 THEN Ok(_write_string(w.val, STR.None), 0)
                      ELSE w))

\* prop.to_bytes(data)
to_bytes(data, prop) ==
    CASE prop.cls = "ArrayProperty" -> ArrayProperty_to_bytes(data, prop)
      [] prop.cls = "BoolProperty" -> BoolProperty_to_bytes(data, prop)
      [] prop.cls = "ByteProperty" -> ByteProperty_to_bytes(data, prop)
      [] prop.cls \in {"DoubleProperty", "Int64Property", "UInt64Property"} ->
            Fixed8_to_bytes(data, prop)
      [] prop.cls = "FloatProperty" -> FloatProperty_to_bytes(data, prop)
      [] prop.cls = "IntProperty" -> IntProperty_to_bytes(data, prop)
      [] prop.cls = "MapProperty" -> MapProperty_to_bytes(data, prop)
      [] prop.cls \in {"NameProperty", "ObjectProperty", "StrProperty"} ->
            NameLike_to_bytes(data, prop)
      [] prop.cls = "StructProperty" -> StructProperty_to_bytes(data, prop)
      [] prop.cls = "TextProperty" -> TextProperty_to_bytes(data, prop)

_write_property(data, prop) ==
    to_bytes(_write_u32(_write_u32(_write_string(_write_string(data, prop.name),
                                                 STR[prop.cls]),
                                   SizeOf(prop)),
                        prop.tag),
             prop)

(***************************************************************************)
(* The GVAS header codec of the package (src/uesave/__init__.py) and the    *)
(* header parser of the stand-alone script (src/uesave.py).  A header is    *)
(* the function from its keys to their values that the Python dict is.      *)
(***************************************************************************)
\* the characters _plausible_class_name allows
AllowedChars ==
    (97..122) \cup (65..90) \cup (48..57)
    \cup {32, 33, 34, 36, 37, 39, 40, 41, 43, 44, 45, 46, 47, 58, 60, 62, 64, 91, 92, 93, 95}

\* neither return after the ratio test depends on the markers
_plausible_class_name(str) ==
    /\ 1 <= Len(str) /\ Len(str) <= 2048
    /\ 4 * Cardinality({i \in 1..Len(str) : str[i] \in AllowedChars}) >= 3 * Len(str)

\* "for _ in range(cnt): guid, version[, friendly_name]"
RECURSIVE ReadCustomVersions(_, _, _, _, _)
ReadCustomVersions(data, offset, cnt, friendly, acc) ==
    IF cnt <= 0 THEN Ok(acc, offset)
    ELSE Then(_read_guid(data, offset), LAMBDA guid :
         Then(_read_i32(data, guid.off), LAMBDA version :
             IF ~friendly
             THEN ReadCustomVersions(data, version.off, cnt - 1, friendly,
                      Append(acc, [guid |-> guid.val, version |-> version.val]))
             ELSE Then(_read_string(data, version.off), LAMBDA fname :
                      ReadCustomVersions(data, fname.off, cnt - 1, friendly,
                          Append(acc, [guid |-> guid.val, version |-> version.val,
                                       friendly_name |-> fname.val])))))

\* the engine version read at off0, behind the file versions decided on
ReadEngineVersion(data, off0, head) ==
    Then(_read_u16(data, off0), LAMBDA eng_major :
    Then(_read_u16(data, eng_major.off), LAMBDA eng_minor :
    Then(_read_u16(data, eng_minor.off), LAMBDA eng_patch :
    Then(_read_u32(data, eng_patch.off), LAMBDA eng_changelist :
    Then(_read_string(data, eng_changelist.off), LAMBDA eng_branch :
        Ok(head @@ [engine_version |->
                       [major |-> eng_major.val, minor |-> eng_minor.val,
                        patch |-> eng_patch.val, changelist |-> eng_changelist.val,
                        branch |-> eng_branch.val]],
           eng_branch.off))))))

\* the header prefix with the dual layout decided on the first peeked u16
\* alone
ReadHeaderPrefixMajorOnly(data, offset) ==
    IF Slice(data, offset, offset + 4) # MAGIC
    THEN Fail("ValueError: Not a GVAS header at given offset")
    ELSE Then(_read_i32(data, offset + 4), LAMBDA save_game_version :
         Then(_read_i32(data, save_game_version.off), LAMBDA file_version_ue4 :
         Then(_read_i32(data, file_version_ue4.off), LAMBDA file_version_ue5 :
         Then(_read_u16(data, file_version_ue5.off), LAMBDA eng_major_try :
         Then(_read_u16(data, eng_major_try.off), LAMBDA eng_minor_try :
             IF eng_major_try.val <= 50
             THEN ReadEngineVersion(data, file_version_ue5.off,
                      [magic |-> MAGIC, save_game_version |-> save_game_version.val,
                       file_version_ue4 |-> file_version_ue4.val,
                       file_version_ue5 |-> file_version_ue5.val])
             ELSE ReadEngineVersion(data, file_version_ue4.off,
                      [magic |-> MAGIC, save_game_version |-> save_game_version.val,
                       package_file_version |-> file_version_ue4.val]))))))

\* the part of the header both decoders read alike: magic, save game
\* version, the dual or single file versions, the engine version
ReadHeaderPrefix(data, offset) ==
    IF Slice(data, offset, offset + 4) # MAGIC
    THEN Fail("ValueError: Not a GVAS header at given offset")
    ELSE Then(_read_i32(data, offset + 4), LAMBDA save_game_version :
         Then(_read_i32(data, save_game_version.off), LAMBDA file_version_ue4 :
         Then(_read_i32(data, file_version_ue4.off), LAMBDA file_version_ue5 :
         Then(_read_u16(data, file_version_ue5.off), LAMBDA eng_major_try :
         Then(_read_u16(data, eng_major_try.off), LAMBDA eng_minor_try :
             IF eng_major_try.val <= 50 /\ eng_minor_try.val <= 50
             THEN ReadEngineVersion(data, file_version_ue5.off,
                      [magic |-> MAGIC, save_game_version |-> save_game_version.val,
                       file_version_ue4 |-> file_version_ue4.val,
                       file_version_ue5 |-> file_version_ue5.val])
             ELSE ReadEngineVersion(data, file_version_ue4.off,
                      [magic |-> MAGIC, save_game_version |-> save_game_version.val,
                       package_file_version |-> file_version_ue4.val]))))))

\* "if not (0 <= cnt <= 10000 and 0 <= fmt <= 10): raise ValueError"
SaneCounts(cnt, fmt) == 0 <= cnt /\ cnt <= 10000 /\ 0 <= fmt /\ fmt <= 10

\* _read_gvas_header of the package: the custom versions are read in the
\* one layout fmt, count, (GUID, version)*, class name
_read_gvas_header(data, offset) ==
    Then(ReadHeaderPrefix(data, offset), LAMBDA pre :
    Then(_read_i32(data, pre.off), LAMBDA fmt :
    Then(_read_i32(data, fmt.off), LAMBDA cnt :
        IF ~SaneCounts(cnt.val, fmt.val) THEN Fail("ValueError")
        ELSE Then(ReadCustomVersions(data, cnt.off, cnt.val, FALSE, <<>>),
                  LAMBDA customs_versions :
             Then(_read_string(data, customs_versions.off), LAMBDA cls_name :
                 Asserting(_plausible_class_name(cls_name.val),
                     Ok(pre.val @@ [custom_versions_format |-> fmt.val,
                                    custom_versions |-> customs_versions.val,
                                    save_game_class_name |-> cls_name.val],
                        cls_name.off)))))))

\* one attempt of parse_gvas_header at the custom versions from base: with
\* or without the format word, with or without friendly names.  ok = FALSE
\* is the attempt's parsed_ok = False, whether by an exception or by an
\* implausible class name
Attempt(data, base, withFormat, friendly) ==
    Then(IF withFormat THEN _read_i32(data, base) ELSE Ok(0, base), LAMBDA fmt :
    Then(_read_i32(data, fmt.off), LAMBDA cnt :
        IF ~SaneCounts(cnt.val, fmt.val) THEN Fail("ValueError")
        ELSE Then(ReadCustomVersions(data, cnt.off, cnt.val, friendly, <<>>), LAMBDA customs :
             Then(_read_string(data, customs.off), LAMBDA cls :
                 IF ~_plausible_class_name(cls.val) THEN Fail("implausible")
                 ELSE Ok((IF withFormat THEN [custom_versions_format |-> fmt.val]
                                        ELSE << >>)
                         @@ [custom_versions |-> customs.val,
                             save_game_class_name |-> cls.val],
                         cls.off)))))

\* the fallback of parse_gvas_header: the class name alone, outside any try
AttemptE(data, base) ==
    Then(_read_string(data, base), LAMBDA cls :
        IF _plausible_class_name(cls.val)
        THEN Ok([save_game_class_name |-> cls.val], cls.off)
        ELSE Ok(<< >>, base))

\* "if not parsed_ok: try: ... except Exception: pass": the attempt made
\* only when none before it has parsed
OrElse(r, K(_)) == IF r.ok THEN r ELSE K(r)

\* parse_gvas_header of src/uesave.py: attempts A, B, C, D and the fallback,
\* each from base, the first with parsed_ok wins
parse_gvas_header(data, offset) ==
    Then(ReadHeaderPrefix(data, offset), LAMBDA pre :
    Then(OrElse(Attempt(data, pre.off, TRUE, FALSE), LAMBDA a :
         OrElse(Attempt(data, pre.off, TRUE, TRUE), LAMBDA b :
         OrElse(Attempt(data, pre.off, FALSE, FALSE), LAMBDA c :
         OrElse(Attempt(data, pre.off, FALSE, TRUE), LAMBDA d :
             AttemptE(data, pre.off))))),
         LAMBDA won : Ok(pre.val @@ won.val, won.off)))

\* "for entry in custom_versions: _write_guid; _write_i32"
RECURSIVE WriteCustomVersions(_, _)
WriteCustomVersions(data, custom_versions) ==
    IF custom_versions = <<>> THEN data
    ELSE WriteCustomVersions(
             _write_i32(_write_guid(data, Head(custom_versions).guid),
                        Head(custom_versions).version),
             Tail(custom_versions))

\* _write_gvas_header: a missing key raises KeyError
_write_gvas_header(data, header) ==
    LET Has(k) == k \in DOMAIN header
        dual == Has("file_version_ue4")
    IN  IF ~Has("save_game_version") THEN Fail("KeyError")
        ELSE IF dual /\ ~Has("file_version_ue5") THEN Fail("AssertionError")
        ELSE IF ~dual /\ ~Has("package_file_version") THEN Fail("KeyError")
        ELSE IF ~Has("engine_version") \/ ~Has("custom_versions_format")
                \/ ~Has("custom_versions") \/ ~Has("save_game_class_name")
        THEN Fail("KeyError")
        ELSE LET d1 == _write_i32(data \o MAGIC, header.save_game_version)
                 d2 == IF dual
                       THEN _write_i32(_write_i32(d1, header.file_version_ue4),
                                       header.file_version_ue5)
                       ELSE _write_i32(d1, header.package_file_version)
                 ev == header.engine_version
                 d3 == _write_string(
                           _write_u32(_write_u16(_write_u16(_write_u16(d2, ev.major),
                                                            ev.minor), ev.patch),
                                      ev.changelist),
                           ev.branch)
                 d4 == WriteCustomVersions(
                           _write_i32(_write_i32(d3, header.custom_versions_format),
                                      Len(header.custom_versions)),
                           header.custom_versions)
             IN  Ok(_write_string(d4, header.save_game_class_name), 0)

(***************************************************************************)
(* The file facade.                                                         *)
(***************************************************************************)
\* the loop of _read_properties: a sentinel is skipped, not a stop
RECURSIVE _read_properties(_, _, _, _)
_read_properties(data, offset, end_offset, properties) ==
    IF offset >= end_offset THEN Ok(properties, offset)
    ELSE Then(_read_property(data, offset), LAMBDA r :
             _read_properties(data, r.off, end_offset,
                 IF r.val = NoProperty THEN properties ELSE Append(properties, r.val)))

\* _write_properties without the closing "None"
WritePropertiesNoSentinel(data, properties) == WriteEach(data, properties)

_write_properties(data, properties) ==
    Then(WriteEach(data, properties), LAMBDA w : Ok(_write_string(w.val, STR.None), 0))

\* the window of data.find(MAGIC, 0, 256)
SearchWindow == 256

\* data.find(MAGIC) without the window: the lowest index of a match anywhere
FindMagicAnywhere(data) ==
    LET hits == {i \in 0..(Len(data) - 4) : Slice(data, i, i + 4) = MAGIC}
    IN  IF hits = {} THEN -1 ELSE CHOOSE i \in hits : \A j \in hits : i <= j

\* data.find(MAGIC, 0, 256): the lowest index of a whole match inside the
\* window, or -1
FindMagic(data) ==
    LET hits == {i \in 0..(Min(Len(data), SearchWindow) - 4) : Slice(data, i, i + 4) = MAGIC}
    IN  IF hits = {} THEN -1 ELSE CHOOSE i \in hits : \A j \in hits : i <= j

SaveFile(header, properties) == [header |-> header, properties |-> properties]

\* "if data.startswith(MAGIC): idx = 0 else: idx = data.find(MAGIC, 0, 256);
\* if idx == -1: raise ValueError('GVAS magic not found')"
MagicIn(data) ==
    IF StartsWith(data, MAGIC) THEN Ok(data, 0)
    ELSE IF FindMagic(data) = -1 THEN Fail("ValueError: GVAS magic not found")
    ELSE Ok(data, FindMagic(data))

\* "try: candidate = decompress_payload(data, compression); if
\* candidate.startswith(MAGIC): data = candidate; except Exception: pass"
Candidate(bytes, candidate) ==
    IF candidate.ok /\ StartsWith(candidate.out, MAGIC) THEN candidate.out ELSE bytes

\* the opening of read_savefile on the bytes of the file: the buffer to
\* parse (the file, or what a codec made of it when that starts with the
\* magic) and the offset of the magic in it; l is what the codec libraries
\* do with the file's bytes
LocateMagic(bytes, compression, l) ==
    MagicIn(IF StartsWith(bytes, MAGIC) THEN bytes
            ELSE Candidate(bytes, decompress_payload(bytes, compression, l)))

\* read_savefile: the SaveFile returned, or the exception raised
read_savefile(bytes, compression, l) ==
    Then(LocateMagic(bytes, compression, l), LAMBDA at :
    Then(_read_gvas_header(at.val, at.off), LAMBDA header :
    Then(_read_properties(at.val, header.off, Len(at.val), <<>>), LAMBDA properties :
        Ok(SaveFile(header.val, properties.val), properties.off))))

\* write_savefile: the bytes written to the path
write_savefile(save) ==
    Then(_write_gvas_header(<<>>, save.header), LAMBDA h :
        _write_properties(h.val, save.properties))

(***************************************************************************)
(* Buffers the decoders are run on.                                         *)
(***************************************************************************)
\* an FString as the engine stores an ASCII string
FString(str) == _write_string(<<>>, str)

\* one tagged property record: name, type, size, tag, then the body
Record(name, type, size, tag, body) ==
    FString(name) \o FString(type) \o U32Bytes(size) \o U32Bytes(tag) \o body

\* records of every class the factory knows (one-letter names), of the four
\* special structs, of every array element kind, numeric and string records
\* whose size field contradicts their kind or value, and the two sentinels
Catalogue ==
    LET Foo == << 70, 111, 111 >>
        FooProperty == Foo \o << 80, 114, 111, 112, 101, 114, 116, 121 >>
        A == << 65 >>
        Z16 == Repeat(0, 16)
        G16 == [i \in 1..16 |-> 17 * (i - 1)]
        One == << 0, 0, 128, 63 >>
        BoolX == Record(STR.X, STR.BoolProperty, 0, 0, << 1, 0 >>)
        Struct(name, type, size, body) ==
            Record(name, STR.StructProperty, size, 0, FString(type) \o Z16 \o << 0 >> \o body)
        Array(inner, size, n, body) ==
            Record(A, STR.ArrayProperty, size, 0, FString(inner) \o << 0 >> \o U32Bytes(n) \o body)
    IN  [ BoolX |-> BoolX,
          Bool2 |-> Record(STR.X, STR.BoolProperty, 0, 0, << 2, 0 >>),
          BoolTag |-> Record(<< 66 >>, STR.BoolProperty, 0, 7, << 0, 0 >>),
          Int |-> Record(<< 78 >>, STR.IntProperty, 4, 0, I32Bytes(-7) \o << 0 >>),
          IntTag |-> Record(<< 78 >>, STR.IntProperty, 4, 0, I32Bytes(7) \o << 255 >>),
          Float |-> Record(<< 70 >>, STR.FloatProperty, 4, 0, One),
          FloatNaN |-> Record(<< 70 >>, STR.FloatProperty, 4, 0, << 1, 0, 128, 127 >>),
          Double |-> Record(<< 68 >>, STR.DoubleProperty, 8, 0, << 0, 0, 0, 0, 0, 0, 4, 64 >>),
          Int64 |-> Record(<< 76 >>, STR.Int64Property, 8, 0,
                           << 254, 255, 255, 255, 255, 255, 255, 255 >>),
          UInt64 |-> Record(<< 85 >>, STR.UInt64Property, 8, 0, << 5, 0, 0, 0, 0, 0, 0, 128 >>),
          BoolSize1 |-> Record(STR.X, STR.BoolProperty, 1, 0, << 1, 0 >>),
          IntSize5 |-> Record(<< 78 >>, STR.IntProperty, 5, 0, I32Bytes(-7) \o << 0 >>),
          FloatSize8 |-> Record(<< 70 >>, STR.FloatProperty, 8, 0, One \o One),
          DoubleSize4 |-> Record(<< 68 >>, STR.DoubleProperty, 4, 0, One \o One),
          Int64Size4 |-> Record(<< 76 >>, STR.Int64Property, 4, 0, One \o One),
          UInt64Size4 |-> Record(<< 85 >>, STR.UInt64Property, 4, 0, One \o One),
          Str |-> Record(<< 83 >>, STR.StrProperty, 6, 0, << 0 >> \o FString(A)),
          StrEmpty |-> Record(<< 83 >>, STR.StrProperty, 4, 0, << 0 >> \o FString(<<>>)),
          StrWide |-> Record(<< 83 >>, STR.StrProperty, 5, 0,
                             << 0 >> \o I32Bytes(-2) \o << 233, 0, 0, 0 >>),
          Name |-> Record(<< 77 >>, STR.NameProperty, 6, 0, << 0 >> \o FString(A)),
          Object |-> Record(<< 79 >>, STR.ObjectProperty, 7, 0, << 0 >> \o FString(<< 47, 65 >>)),
          StrSize7 |-> Record(<< 83 >>, STR.StrProperty, 7, 0, << 0 >> \o FString(A)),
          NameEmpty |-> Record(<< 77 >>, STR.NameProperty, 4, 0, << 0 >> \o FString(<<>>)),
          NameEmpty5 |-> Record(<< 77 >>, STR.NameProperty, 5, 0, << 0 >> \o FString(<<>>)),
          ObjectEmpty |-> Record(<< 79 >>, STR.ObjectProperty, 4, 0, << 0 >> \o FString(<<>>)),
          ObjectEmpty5 |-> Record(<< 79 >>, STR.ObjectProperty, 5, 0, << 0 >> \o FString(<<>>)),
          Byte1 |-> Record(<< 89 >>, STR.ByteProperty, 1, 0, FString(STR.None) \o << 0, 5 >>),
          ByteEnum |-> Record(<< 89 >>, STR.ByteProperty, 8, 0,
                              FString(<< 69 >>) \o << 0 >> \o FString(<< 69, 58, 58, 65 >>)),
          Map |-> Record(<< 80 >>, STR.MapProperty, 7, 0,
                         FString(STR.IntProperty) \o FString(STR.IntProperty) \o << 0 >>
                         \o U32Bytes(0) \o << 9, 8 >> \o << 0 >>),
          Map5 |-> Record(<< 80 >>, STR.MapProperty, 5, 0,
                          FString(<< 75 >>) \o FString(<< 86 >>) \o << 0 >>
                          \o U32Bytes(3) \o << 0 >>),
          MapShort |-> Record(<< 80 >>, STR.MapProperty, 4, 0,
                              FString(<< 75 >>) \o FString(<< 86 >>) \o << 0 >> \o U32Bytes(0)),
          Text |-> Record(<< 84 >>, STR.TextProperty, 3, 0, << 1, 2, 3, 0 >>),
          Struct |-> Struct(<< 71 >>, Foo, 42, BoolX \o FString(STR.None)),
          StructEmpty |-> Struct(<< 71 >>, Foo, 0, <<>>),
          StructInt5 |-> Struct(<< 71 >>, Foo, 44, Record(<< 78 >>, STR.IntProperty, 5, 0, I32Bytes(-7) \o << 0 >>) \o FString(STR.None)),
          StructNone |-> Struct(<< 71 >>, Foo, 9, FString(STR.None)),
          StructBlank |-> Struct(<< 71 >>, Foo, 31,
                                 Record(<<>>, STR.BoolProperty, 0, 0, << 1, 0 >>)),
          Quat |-> Struct(<< 81 >>, STR.Quat, 16, One \o One \o One \o One),
          Vector |-> Struct(<< 86 >>, STR.Vector, 12, One \o One \o One),
          DateTime |-> Struct(<< 87 >>, STR.DateTime, 8, << 99, 0, 0, 0, 0, 0, 0, 0 >>),
          Guid |-> Struct(<< 73 >>, STR.Guid, 16, G16),
          ArrByte |-> Array(STR.ByteProperty, 6, 2, << 10, 11 >>),
          ArrByteSize2 |-> Array(STR.ByteProperty, 2, 0, <<>>),
          ArrInt |-> Array(STR.IntProperty, 12, 2, I32Bytes(3) \o I32Bytes(-4)),
          ArrStr |-> Array(STR.StrProperty, 14, 2, FString(A) \o FString(<<>>)),
          ArrName |-> Array(STR.NameProperty, 10, 1, FString(A)),
          ArrFloat |-> Array(STR.FloatProperty, 8, 1, One),
          ArrStruct |-> Array(STR.StructProperty, 46, 1, BoolX \o FString(STR.None)),
          ArrStruct2 |-> Array(STR.StructProperty, 79, 1, BoolX \o BoolX \o FString(STR.None)),
          ArrOther |-> Array(STR.BoolProperty, 6, 2, << 1, 0 >>),
          Unknown |-> Record(<< 75 >>, FooProperty, 0, 0, <<>>),
          None |-> FString(STR.None),
          Empty |-> FString(<<>>),
          Unnamed |-> Record(<<>>, STR.BoolProperty, 0, 0, << 1, 0 >>) ]

\* "/Game/A.B_C"
ClassName == << 47, 71, 97, 109, 101, 47, 65, 46, 66, 95, 67 >>

\* headers up to the class name: dual or single file versions, and the
\* custom versions in each layout a save has been seen with (A: format,
\* count, entries; B: A with friendly names; C: count, entries; D: C with
\* friendly names; E: the class name alone)
Headers ==
    LET Dual(sgv) == MAGIC \o I32Bytes(sgv) \o I32Bytes(522) \o I32Bytes(0)
                     \o << 5, 0, 1, 0, 1, 0 >> \o U32Bytes(0) \o FString(<<>>)
        Single == MAGIC \o I32Bytes(2) \o I32Bytes(522)
                  \o << 4, 0, 27, 0, 2, 0 >> \o U32Bytes(1000) \o FString(<<>>)
        Entry == [i \in 1..16 |-> i - 1] \o I32Bytes(7)
        Friendly == Entry \o FString(<< 70 >>)
        Class == FString(ClassName)
    IN  [ A0 |-> Dual(2) \o I32Bytes(3) \o I32Bytes(0) \o Class,
          A0v3 |-> Dual(3) \o I32Bytes(3) \o I32Bytes(0) \o Class,
          A1 |-> Dual(2) \o I32Bytes(3) \o I32Bytes(1) \o Entry \o Class,
          S0 |-> Single \o I32Bytes(3) \o I32Bytes(0) \o Class,
          S1 |-> Single \o I32Bytes(3) \o I32Bytes(1) \o Entry \o Class,
          B1 |-> Dual(2) \o I32Bytes(3) \o I32Bytes(1) \o Friendly \o Class,
          C0 |-> Dual(2) \o I32Bytes(0) \o Class,
          C1 |-> Dual(2) \o I32Bytes(1) \o Entry \o Class,
          D1 |-> Dual(2) \o I32Bytes(1) \o Friendly \o Class,
          E |-> Dual(2) \o Class,
          Odd |-> Dual(2) \o I32Bytes(3) \o I32Bytes(0) \o FString(<< 1, 2, 3 >>),
          Fmt11 |-> Dual(2) \o I32Bytes(11) \o I32Bytes(0) \o Class ]

(***************************************************************************)
(* The property codec driven by a client: read one record at an offset,     *)
(* write the node read into an empty buffer, read what was written.         *)
(***************************************************************************)
\* every record of the catalogue whole at offset 0, whole behind two bytes
\* and before three, and cut short at every length
PropertyInputs ==
    LET recs == {Catalogue[k] : k \in DOMAIN Catalogue}
    IN  {[data |-> r, offset |-> 0] : r \in recs}
        \cup {[data |-> << 255, 255 >> \o r \o << 0, 0, 0 >>, offset |-> 2] : r \in recs}
        \cup UNION {{[data |-> Slice(r, 0, n), offset |-> 0] : n \in 0..(Len(r) - 1)} : r \in recs}

PropIdle ==
    /\ pin = [data |-> <<>>, offset |-> 0]
    /\ pres = Fail("")
    /\ pout = Fail("")
    /\ pres2 = Fail("")
    /\ ppc = "idle"

ReadProperty ==
    /\ ppc = "start"
    /\ pres' = _read_property(pin.data, pin.offset)
    /\ ppc' = "read"
    /\ UNCHANGED << pin, pout, pres2 >>
    /\ UNCHANGED << strVars, guidVars, envVars, fileVars, hdrVars, webVars >>

\* _read_property gives None at a sentinel: there is no node to write
WriteProperty ==
    /\ ppc = "read"
    /\ pres.ok /\ pres.val # NoProperty
    /\ pout' = _write_property(<<>>, pres.val)
    /\ ppc' = "written"
    /\ UNCHANGED << pin, pres, pres2 >>
    /\ UNCHANGED << strVars, guidVars, envVars, fileVars, hdrVars, webVars >>

RereadProperty ==
    /\ ppc = "written"
    /\ pout.ok
    /\ pres2' = _read_property(pout.val, 0)
    /\ ppc' = "reread"
    /\ UNCHANGED << pin, pres, pout >>
    /\ UNCHANGED << strVars, guidVars, envVars, fileVars, hdrVars, webVars >>

NextProp == ReadProperty \/ WriteProperty \/ RereadProperty

(***************************************************************************)
(* The file facade driven by a client: read_savefile on a file, then        *)
(* write_savefile of the SaveFile, then read_savefile on the file written.  *)
(***************************************************************************)
\* the codec libraries when every codec rejects the buffer
NoLib == [c \in Codecs |-> [st |-> "fail", out |-> <<>>]]

\* the records a file body is made of
FileRecords ==
    {Catalogue[k] : k \in {"BoolX", "Int", "Float", "Double", "Str", "StrWide", "Name",
                           "BoolSize1", "IntSize5", "FloatSize8", "DoubleSize4",
                           "Int64Size4", "UInt64Size4", "StructInt5",
                           "Byte1", "Map", "Text", "Struct", "StructEmpty", "Quat",
                           "DateTime", "Guid", "ArrByte", "ArrInt", "ArrStruct"}}

\* the bodies of at most n records
RECURSIVE Bodies(_)
Bodies(n) ==
    IF n = 0 THEN {<<>>}
    ELSE Bodies(n - 1) \cup {b \o r : b \in Bodies(n - 1), r \in FileRecords}

\* files: every header before an empty and a one-record body, the minimal
\* header before up to MaxProps records, each closed by "None"; files with
\* padding or a further record behind the sentinel, without sentinel, behind
\* leading bytes (once with a second magic in front) and inside a compressed
\* envelope
FileInputs ==
    LET none == FString(STR.None)
        Plain(b) == [bytes |-> b, compression |-> "auto", lib |-> NoLib]
        minimal == Headers.A0 \o none
        zbuf == << 120, 156, 1, 2 >>
        Lead(n) == [i \in 1..n |-> 120]
    IN  {Plain(Headers[h] \o b \o none) :
             h \in DOMAIN Headers, b \in {<<>>, Catalogue.BoolX}}
        \cup {Plain(Headers.A0 \o b \o none) : b \in Bodies(MaxProps)}
        \cup {Plain(Headers.A0 \o Catalogue[k] \o none \o pad) :
                 k \in {"BoolX", "Unknown", "Empty"},
                 pad \in {<< 0, 0, 0, 0 >>, << 1 >>, Catalogue.Int \o none}}
        \cup {Plain(Headers.A0 \o Catalogue.BoolX), Plain(Headers.A0), Plain(<<>>)}
        \cup {Plain(Lead(n) \o minimal) : n \in {1, SearchWindow - 4, SearchWindow - 3}}
        \cup {Plain(Lead(1) \o MAGIC \o minimal)}
        \cup {Plain(Headers.A0 \o Catalogue.StructNone \o b \o none) :
                 b \in {<<>>, Catalogue.BoolX, Catalogue.Int \o Catalogue.BoolX}}
        \cup {[bytes |-> zbuf, compression |-> m,
               lib |-> [NoLib EXCEPT ![c] = [st |-> "out", out |-> o]]] :
                 m \in {"auto", "none", "zlib", "gzip"}, c \in {"zlib", "deflate"},
                 o \in {minimal, << 1 >> \o minimal, << 1, 2 >>}}
        \cup {[bytes |-> zbuf, compression |-> "auto", lib |-> NoLib]}

FileIdle ==
    /\ fin = [bytes |-> <<>>, compression |-> "auto", lib |-> NoLib]
    /\ fheader = Fail("")
    /\ fsave = Fail("")
    /\ fout = Fail("")
    /\ fsave2 = Fail("")
    /\ fpc = "idle"

\* read_savefile(path, compression); fheader keeps what its call of
\* _read_gvas_header gave, when it got that far
ReadSavefile ==
    /\ fpc = "start"
    /\ fsave' = read_savefile(fin.bytes, fin.compression, fin.lib)
    /\ fheader' = LET at == LocateMagic(fin.bytes, fin.compression, fin.lib)
                  IN  IF at.ok THEN _read_gvas_header(at.val, at.off) ELSE at
    /\ fpc' = "read"
    /\ UNCHANGED << fin, fout, fsave2 >>
    /\ UNCHANGED << strVars, guidVars, envVars, propVars, hdrVars, webVars >>

\* write_savefile(path, save)
WriteSavefile ==
    /\ fpc = "read"
    /\ fsave.ok
    /\ fout' = write_savefile(fsave.val)
    /\ fpc' = "written"
    /\ UNCHANGED << fin, fheader, fsave, fsave2 >>
    /\ UNCHANGED << strVars, guidVars, envVars, propVars, hdrVars, webVars >>

\* read_savefile on the file written; it starts with the magic, so that no
\* codec is consulted
ReadBack ==
    /\ fpc = "written"
    /\ fout.ok
    /\ fsave2' = read_savefile(fout.val, "auto", NoLib)
    /\ fpc' = "reread"
    /\ UNCHANGED << fin, fheader, fsave, fout >>
    /\ UNCHANGED << strVars, guidVars, envVars, propVars, hdrVars, webVars >>

NextFile == ReadSavefile \/ WriteSavefile \/ ReadBack

(***************************************************************************)
(* The header codec driven by a client that builds the header itself:       *)
(* _write_gvas_header into an empty buffer, then _read_gvas_header on the   *)
(* bytes written.                                                           *)
(***************************************************************************)
\* header dicts with either file-version variant and engine versions on both
\* sides of the reader's plausibility limit, and two dicts the writer rejects
HeaderInputs ==
    LET Rest(ev) == [magic |-> MAGIC, save_game_version |-> 2, engine_version |-> ev,
                     custom_versions_format |-> 3, custom_versions |-> <<>>,
                     save_game_class_name |-> ClassName]
        Engines == [major : {4, 5, 50, 51}, minor : {0, 27, 51}, patch : {0, 2, 51},
                    changelist : {0, 50, 51, 65536, 65587}, branch : {<<>>}]
    IN  {[package_file_version |-> 522] @@ Rest(ev) : ev \in Engines}
        \cup {[file_version_ue4 |-> 522, file_version_ue5 |-> 1009] @@ Rest(ev) : ev \in Engines}
        \cup {[file_version_ue4 |-> 522] @@ Rest(ev) : ev \in {e \in Engines : e.patch = 51}}
        \cup {Rest(ev) : ev \in {e \in Engines : e.patch = 51}}

HdrIdle ==
    /\ hin = << >>
    /\ hout = Fail("")
    /\ hres = Fail("")
    /\ hpc = "idle"

WriteHeader ==
    /\ hpc = "start"
    /\ hout' = _write_gvas_header(<<>>, hin)
    /\ hpc' = "written"
    /\ UNCHANGED << hin, hres >>
    /\ UNCHANGED << strVars, guidVars, envVars, propVars, fileVars, webVars >>

ReadHeader ==
    /\ hpc = "written"
    /\ hout.ok
    /\ hres' = _read_gvas_header(hout.val, 0)
    /\ hpc' = "read"
    /\ UNCHANGED << hin, hout >>
    /\ UNCHANGED << strVars, guidVars, envVars, propVars, fileVars, webVars >>

NextHdr == WriteHeader \/ ReadHeader

(***************************************************************************)
(* The web inspector (src/uesave/webapp.py): the upload endpoint stores a   *)
(* file under UPLOAD_ROOT, and _clean_loop, once its thread runs, removes    *)
(* the files older than FILE_TTL_SECONDS every CLEAN_INTERVAL_SECONDS.       *)
(* Time is counted in sweeps: a file's age grows by one interval per sweep   *)
(* time, and stops being counted one interval past the TTL.                  *)
(***************************************************************************)
CLEAN_INTERVAL_SECONDS == 300

FILE_TTL_SECONDS == 1800

\* the files one run can have under UPLOAD_ROOT at a time
MaxUploads == 3

\* no file of that name under UPLOAD_ROOT
NoFile == -1

\* the server as uvicorn starts it: no upload yet; nothing in webapp.py calls
\* _ensure_cleaner_started, so that app.state._cleaner_started is not set
WebIdle ==
    /\ uploads = [i \in 1..MaxUploads |-> NoFile]
    /\ cleaner_started = FALSE
    /\ upload_status = 0

\* api_upload: the file is written under a name not in use (time and uuid),
\* then read_savefile parses it; the file stays when parsing fails (400)
ApiUpload(i, parsed) ==
    /\ uploads[i] = NoFile
    /\ uploads' = [uploads EXCEPT ![i] = 0]
    /\ upload_status' = IF parsed THEN 200 ELSE 400
    /\ UNCHANGED cleaner_started
    /\ UNCHANGED << strVars, guidVars, envVars, propVars, fileVars, hdrVars >>

\* every file one interval older
Aged(ages) ==
    [i \in DOMAIN ages |->
        IF ages[i] = NoFile THEN NoFile
        ELSE Min(ages[i] + CLEAN_INTERVAL_SECONDS, FILE_TTL_SECONDS + CLEAN_INTERVAL_SECONDS)]

\* one sweep of _clean_loop over the files as old as they are then: "if age
\* > FILE_TTL_SECONDS: p.unlink(missing_ok=True)"
Swept(ages) ==
    [i \in DOMAIN ages |-> IF ages[i] > FILE_TTL_SECONDS THEN NoFile ELSE ages[i]]

\* CLEAN_INTERVAL_SECONDS pass: every file is that much older, and the
\* cleaner thread, if it was started, wakes from time.sleep and sweeps
IntervalPasses ==
    /\ uploads' =
           (IF cleaner_started THEN Swept(Aged(uploads)) ELSE Aged(uploads))
    /\ UNCHANGED << cleaner_started, upload_status >>
    /\ UNCHANGED << strVars, guidVars, envVars, propVars, fileVars, hdrVars >>

NextWeb == (\E i \in 1..MaxUploads, parsed \in BOOLEAN : ApiUpload(i, parsed)) \/ IntervalPasses

(***************************************************************************)
(* Specifications.                                                          *)
(***************************************************************************)
InitString ==
    /\ s \in Strings
    /\ sdata \in Prefixes
    /\ sstart = Len(sdata)
    /\ sres = Fail("")
    /\ spc = "start"
    /\ GuidIdle
    /\ EnvIdle
    /\ PropIdle
    /\ FileIdle
    /\ HdrIdle
    /\ WebIdle

InitEnvelope ==
    /\ raw_bytes \in EnvelopeBuffers
    /\ method \in Methods
    /\ lib \in LibFor(raw_bytes)
    /\ dres = Raised("", <<>>)
    /\ dorig = raw_bytes
    /\ dcalls = 0
    /\ StrIdle
    /\ GuidIdle
    /\ PropIdle
    /\ FileIdle
    /\ HdrIdle
    /\ WebIdle

SpecEnvelope == InitEnvelope /\ [][NextEnv]_vars

SpecString == InitString /\ [][NextStr]_vars

InitGuid ==
    /\ gin \in GuidInputs
    /\ gbytes = IF gin.kind = "bytes" THEN gin.v ELSE <<>>
    /\ gtext = IF gin.kind = "str" THEN gin.v ELSE <<>>
    /\ gpc = "start"
    /\ StrIdle
    /\ EnvIdle
    /\ PropIdle
    /\ FileIdle
    /\ HdrIdle
    /\ WebIdle

SpecGuid == InitGuid /\ [][NextGuid]_vars

InitProperty ==
    /\ pin \in PropertyInputs
    /\ pres = Fail("")
    /\ pout = Fail("")
    /\ pres2 = Fail("")
    /\ ppc = "start"
    /\ StrIdle
    /\ GuidIdle
    /\ EnvIdle
    /\ FileIdle
    /\ HdrIdle
    /\ WebIdle

SpecProperty == InitProperty /\ [][NextProp]_vars

InitFile ==
    /\ fin \in FileInputs
    /\ fheader = Fail("")
    /\ fsave = Fail("")
    /\ fout = Fail("")
    /\ fsave2 = Fail("")
    /\ fpc = "start"
    /\ StrIdle
    /\ GuidIdle
    /\ EnvIdle
    /\ PropIdle
    /\ HdrIdle
    /\ WebIdle

SpecFile == InitFile /\ [][NextFile]_vars

InitHeader ==
    /\ hin \in HeaderInputs
    /\ hout = Fail("")
    /\ hres = Fail("")
    /\ hpc = "start"
    /\ StrIdle
    /\ GuidIdle
    /\ EnvIdle
    /\ PropIdle
    /\ FileIdle
    /\ WebIdle

SpecHeader == InitHeader /\ [][NextHdr]_vars

InitWeb ==
    /\ WebIdle
    /\ StrIdle
    /\ GuidIdle
    /\ EnvIdle
    /\ PropIdle
    /\ FileIdle
    /\ HdrIdle

\* time does pass
SpecWeb == InitWeb /\ [][NextWeb]_vars /\ WF_vars(IntervalPasses)

(***************************************************************************)
(* Properties of the string codec (SpecString).                             *)
(***************************************************************************)
\* a string a save file can be expected to hold: no NUL, no unpaired surrogate
PlainString(str) == \A i \in 1..Len(str) : str[i] # 0 /\ ~IsSurrogate(str[i])

IsAscii(str) == \A i \in 1..Len(str) : str[i] < 128

\* C2: reading back what _write_string appended returns the string written
\* and leaves the cursor at the end of the bytes written, for every string
\* (stated here for the strings without NUL and without unpaired surrogates:
\* the empty string, ASCII strings and strings with non-ASCII characters).
C2_StringRoundTrip ==
    (spc = "read" /\ PlainString(s))
        => (sres.ok /\ sres.val = s /\ sres.off = Len(sdata))

\* the encoding the specification gives, case by case
ClaimedEncoding(str) ==
    IF str = <<>> THEN I32Bytes(0)
    ELSE IF IsAscii(str) THEN I32Bytes(Len(str) + 1) \o str \o << 0 >>
    ELSE I32Bytes(-(Len(str) + 1)) \o Utf16Encode(str) \o << 0, 0 >>

\* C3: _write_string appends i32 0 for the empty string, i32 n+1, the n bytes
\* and a NUL for an ASCII string of length n, and i32 -(n+1), the UTF-16LE
\* code units and a two-byte NUL for any other string.
C3_WriteStringByCase ==
    (spc \in {"written", "read"} /\ PlainString(s))
        => sdata = SubSeq(sdata, 1, sstart) \o ClaimedEncoding(s)

(***************************************************************************)
(* Properties of the GUID codec (SpecGuid).                                 *)
(***************************************************************************)
GuidShape(g, digits) ==
    /\ Len(g) = 36
    /\ \A i \in 1..36 : IF i \in {9, 14, 19, 24} THEN g[i] = 45 ELSE g[i] \in digits

\* 8-4-4-4-12 hexadecimal digits of either case
IsCanonicalGuid(g) == GuidShape(g, (48..57) \cup (97..102) \cup (65..70))

\* 8-4-4-4-12 lowercase hexadecimal digits, the form _read_guid renders
IsLowerGuid(g) == GuidShape(g, (48..57) \cup (97..102))

\* C4 as stated: _write_guid and _read_guid are inverse to each other on every
\* canonical GUID string (8-4-4-4-12 hex digits) and on every 16-byte block.
C4_GuidInverse_AsStated ==
    gpc = "done" =>
        /\ (gin.kind = "str" /\ IsCanonicalGuid(gin.v)) => gtext = gin.v
        /\ gin.kind = "bytes" => gbytes = gin.v

\* C4 as amended: _read_guid(_write_guid(g)) = g for every GUID string of
\* 8-4-4-4-12 lowercase hex digits, _write_guid(_read_guid(B)) = B for every
\* 16-byte block B, and 00 11 22 33 44 55 66 77 88 99 AA BB CC DD EE FF
\* renders as 33221100-5544-7766-8899-aabbccddeeff.
C4_GuidInverse ==
    /\ gpc = "done" =>
        /\ (gin.kind = "str" /\ IsLowerGuid(gin.v)) => gtext = gin.v
        /\ gin.kind = "bytes" => gbytes = gin.v
    /\ (gpc \in {"half", "done"} /\ gin.kind = "bytes" /\ gin.v = SampleBlock)
        => gtext = SampleGuid

\* a lowercase GUID string other than the sample came back from the round trip
C4_Witness ==
    /\ gpc = "done"
    /\ gin.kind = "str"
    /\ IsLowerGuid(gin.v)
    /\ gin.v # SampleGuid
    /\ gin.v[1] = 102
    /\ gtext = gin.v
    /\ SubSeq(gbytes, 1, 4) = << 0, 17, 34, 243 >>

(***************************************************************************)
(* Properties of the compression envelope (SpecEnvelope).                   *)
(***************************************************************************)
\* the DecompressionError messages that name a codec
MessagesNaming(m) ==
    CASE m = "zlib" -> { "zlib failed" }
      [] m = "deflate" -> { "deflate failed" }
      [] m = "gzip" -> { "gzip failed" }
      [] m = "lz4" -> { "lz4 failed", "lz4 not available. Install 'lz4' package." }
      [] m = "zstd" -> { "zstd failed", "zstd not available. Install 'zstandard' package." }

Range(q) == { q[i] : i \in 1..Len(q) }

\* C8: with an explicit method m only codec m is attempted; the call returns
\* that codec's output when it succeeds and otherwise raises a
\* DecompressionError naming m, without any bytes.
C8_ExplicitCodecOnly ==
    (dcalls >= 1 /\ method \in Codecs) =>
        /\ Range(dres.tried) \subseteq { method }
        /\ IF lib[method].st = "out"
           THEN dres.ok /\ dres.out = lib[method].out
           ELSE ~dres.ok /\ dres.out = <<>> /\ dres.err \in MessagesNaming(method)

\* zlib was asked for a gzip stream that gzip would have decoded: it raised
C8_Witness ==
    /\ dcalls >= 1
    /\ method = "zlib"
    /\ StartsWith(raw_bytes, GzipMagic)
    /\ lib["gzip"].st = "out"
    /\ ~dres.ok
    /\ dres.err = "zlib failed"
    /\ dres.tried = << "zlib" >>

\* the order the specification gives for auto: the codec whose magic opens
\* the buffer, then zlib, raw DEFLATE, gzip, LZ4 frame, Zstandard
ClaimedAutoOrder(data) ==
    (IF StartsWith(data, GzipMagic) THEN << "gzip" >>
     ELSE IF StartsWith(data, ZstdMagic) THEN << "zstd" >>
     ELSE IF StartsWith(data, Lz4Magic) THEN << "lz4" >>
     ELSE <<>>)
    \o << "zlib", "deflate", "gzip", "lz4", "zstd" >>

\* C9: in auto mode the call returns the output of the first codec of the
\* claimed order that succeeds, having attempted exactly the codecs before
\* it, and raises DecompressionError exactly when every one of them fails.
C9_AutoFirstSuccess ==
    (dcalls >= 1 /\ method \notin Codecs \cup {"none"}) =>
        LET order == ClaimedAutoOrder(raw_bytes)
            wins == { i \in 1..Len(order) : lib[order[i]].st = "out" }
        IN  IF wins = {}
            THEN ~dres.ok /\ dres.tried = order
            ELSE LET first == CHOOSE i \in wins : \A j \in wins : i <= j
                 IN  /\ dres.ok
                     /\ dres.out = lib[order[first]].out
                     /\ dres.tried = SubSeq(order, 1, first)

\* a buffer with the Zstandard magic that raw deflate would also have
\* decoded, to something else: Zstandard was tried first and won
C9_Witness ==
    /\ dcalls >= 1
    /\ method = "auto"
    /\ StartsWith(raw_bytes, ZstdMagic)
    /\ lib["zstd"].st = "out"
    /\ lib["deflate"].st = "out"
    /\ lib["deflate"].out # lib["zstd"].out
    /\ dres.ok
    /\ dres.out = lib["zstd"].out
    /\ dres.tried = << "zstd" >>

\* C10: with method "none" every call returns its buffer unchanged, however
\* often it is applied; with an explicit codec a buffer that begins with
\* "GVAS" is never returned unchanged.
C10_NoneIsIdentity ==
    /\ (dcalls >= 1 /\ method = "none")
         => (dres.ok /\ dres.out = dorig /\ raw_bytes = dorig /\ dres.tried = <<>>)
    /\ (dcalls >= 1 /\ method \in Codecs /\ StartsWith(raw_bytes, MAGIC))
         => ~(dres.ok /\ dres.out = raw_bytes)

\* a zlib stream went through "none" as often as the client may call
C10_Witness ==
    /\ dcalls = MaxCalls
    /\ method = "none"
    /\ dorig = << 120, 156, 3, 0 >>
    /\ lib["zlib"].st = "out"
    /\ dres.ok
    /\ dres.out = dorig

\* C11: with method auto and a buffer that begins with "GVAS",
\* decompress_payload either raises DecompressionError or returns the buffer
\* unchanged; it never returns a buffer different from the one it was given.
C11_AutoOnGvas ==
    (dcalls >= 1 /\ method \notin Codecs \cup {"none"} /\ StartsWith(raw_bytes, MAGIC))
        => (~dres.ok \/ dres.out = raw_bytes)

\* a plain save went through auto: all five codecs were tried, and it raised
C11_Witness ==
    /\ dcalls >= 1
    /\ method = "auto"
    /\ raw_bytes = MAGIC \o << 2, 0, 0, 0 >>
    /\ ~dres.ok
    /\ dres.err = "Could not decompress payload."
    /\ dres.tried = << "zlib", "deflate", "gzip", "lz4", "zstd" >>

(***************************************************************************)
(* Properties of the property codec (SpecProperty).                         *)
(***************************************************************************)
\* the record of the bool example: name "X", type "BoolProperty", size 0,
\* tag 0, value byte 01, separator 00; 33 bytes
BoolRecord ==
    FString(<< 88 >>) \o FString(STR.BoolProperty) \o U32Bytes(0) \o U32Bytes(0) \o << 1, 0 >>

\* the client reads the bool example, wherever it lies in the buffer
AtBoolRecord == Slice(pin.data, pin.offset, pin.offset + Len(BoolRecord)) = BoolRecord

\* C6: the record with name "X", type "BoolProperty", size 0, tag 0, value
\* byte 01 and separator 00 decodes to a BoolProperty named X with value true
\* and reported size 0, and _write_property of that node emits exactly the
\* bytes read: name FString, type FString, u32 0, u32 0, value byte, NUL.
C6_BoolRecord ==
    AtBoolRecord =>
        /\ ppc # "start" =>
              /\ pres = Ok([cls |-> "BoolProperty", name |-> << 88 >>, tag |-> 0,
                            size |-> 0, bvalue |-> TRUE],
                           pin.offset + Len(BoolRecord))
              /\ SizeOf(pres.val) = 0
        /\ ppc \in {"written", "reread"} => pout = Ok(BoolRecord, 0)

\* the bool example was read from the middle of a buffer and written out
C6_Witness ==
    /\ ppc = "written"
    /\ AtBoolRecord
    /\ pin.offset = 2
    /\ pres.ok
    /\ pres.val.bvalue
    /\ pout.ok
    /\ Len(pout.val) = 33

(***************************************************************************)
(* Properties of the file facade (SpecFile).                                *)
(***************************************************************************)
\* C1: for every SaveFile that read_savefile returns, write_savefile
\* succeeds, reading the bytes written succeeds, and the SaveFile read back
\* equals the first one in header and in property tree.
C1_SaveFileRoundTrip ==
    /\ fpc = "written" => fout.ok
    /\ fpc = "reread" => (fsave2.ok /\ fsave2.val = fsave.val)

\* the minimal save: magic, save game version, file versions (522, 0),
\* engine version (5, 1, 1, 0, ""), custom versions format 3 with no entry,
\* class name "/Game/A.B_C", FString "None"
MinimalSave(save_game_version) ==
    MAGIC \o I32Bytes(save_game_version) \o I32Bytes(522) \o I32Bytes(0)
    \o << 5, 0 >> \o << 1, 0 >> \o << 1, 0 >> \o U32Bytes(0) \o I32Bytes(0)
    \o I32Bytes(3) \o I32Bytes(0)
    \o I32Bytes(12) \o ClassName \o << 0 >>
    \o I32Bytes(5) \o STR.None \o << 0 >>

\* the header of the minimal save, in the dual layout
MinimalHeader(save_game_version) ==
    [magic |-> MAGIC, save_game_version |-> save_game_version,
     file_version_ue4 |-> 522, file_version_ue5 |-> 0,
     engine_version |-> [major |-> 5, minor |-> 1, patch |-> 1, changelist |-> 0,
                         branch |-> <<>>],
     custom_versions_format |-> 3, custom_versions |-> <<>>,
     save_game_class_name |-> ClassName]

\* C5: read_savefile decodes the minimal save as the dual-layout header with
\* an empty property list, and write_savefile of that SaveFile emits a
\* buffer byte-identical to the one read.
C5_MinimalSave ==
    \A v \in {2, 3} :
        fin.bytes = MinimalSave(v) =>
            /\ fpc # "start" =>
                  /\ fsave.ok
                  /\ fsave.val = SaveFile(MinimalHeader(v), <<>>)
                  /\ "package_file_version" \notin DOMAIN fsave.val.header
            /\ fpc \in {"written", "reread"} => fout = Ok(fin.bytes, 0)

\* the minimal save with save game version 3 was read and written
C5_Witness ==
    /\ fpc = "written"
    /\ fin.bytes = MinimalSave(3)
    /\ fsave.ok
    /\ fsave.val.properties = <<>>
    /\ fout.ok
    /\ Len(fout.val) = Len(fin.bytes)

\* C7: the header decoder read_savefile runs tries the layouts A, B, C, D
\* and E of the custom versions in that order, each from the same offset,
\* and commits to the first whose class name is plausible: whenever that
\* procedure, which parse_gvas_header is, finds a class name, the decoder
\* returns the header it gives and stops where it stops.
C7_LayoutsInOrder ==
    \A at \in {LocateMagic(fin.bytes, fin.compression, fin.lib)} :
        (fpc # "start" /\ at.ok) =>
            \A claimed \in {parse_gvas_header(at.val, at.off)} :
                (claimed.ok /\ "save_game_class_name" \in DOMAIN claimed.val)
                    => fheader = claimed

\* the buffer the specification has read_savefile work on: what the envelope
\* made of the file when the file does not start with "GVAS", the envelope
\* succeeded and its result starts with "GVAS"; the file itself otherwise
ClaimedWorkingBuffer ==
    IF StartsWith(fin.bytes, MAGIC) THEN fin.bytes
    ELSE LET env == decompress_payload(fin.bytes, fin.compression, fin.lib)
         IN  IF env.ok /\ StartsWith(env.out, MAGIC) THEN env.out ELSE fin.bytes

\* the offsets of the occurrences of "GVAS" that lie within the first 256
\* bytes of a buffer
OccurrencesInWindow(data) ==
    {i \in 0..(Len(data) - 4) : i + 4 <= 256 /\ SubSeq(data, i + 1, i + 4) = MAGIC}

\* C12: read_savefile parses the header in the working buffer (the envelope's
\* result when the file does not start with "GVAS" and that result does, the
\* file itself otherwise, also when the envelope raises) at the first
\* occurrence of "GVAS" within the first 256 bytes, and it fails with "GVAS
\* magic not found" exactly when there is no such occurrence.
C12_LocateHeader ==
    fpc # "start" =>
        \A work \in {ClaimedWorkingBuffer} :
            \A occ \in {OccurrencesInWindow(work)} :
                IF occ = {}
                THEN ~fsave.ok /\ fsave.err = "ValueError: GVAS magic not found"
                ELSE /\ fsave.err # "ValueError: GVAS magic not found"
                     /\ fheader = _read_gvas_header(work, CHOOSE i \in occ : \A j \in occ : i <= j)
                     /\ fsave.ok => (fheader.ok /\ fsave.val.header = fheader.val)

\* the file opens with 120 and two magics: the header was looked for at the
\* first of them, where none is
C12_Witness ==
    /\ fpc = "read"
    /\ StartsWith(fin.bytes, << 120 >> \o MAGIC \o MAGIC)
    /\ OccurrencesInWindow(fin.bytes) = {1, 5}
    /\ ~fheader.ok
    /\ ~fsave.ok
    /\ fsave.err # "ValueError: GVAS magic not found"

\* plausible_class_name in the specification's words: 1 to 2048 characters,
\* at least 75% of them in the allowed set
ClaimedPlausible(name) ==
    /\ Len(name) \in 1..2048
    /\ 100 * Cardinality({i \in DOMAIN name : name[i] \in AllowedChars}) >= 75 * Len(name)

\* what the specification promises of a header a decoder returned
ClaimedHeader(h) ==
    /\ "save_game_class_name" \in DOMAIN h
    /\ ClaimedPlausible(h.save_game_class_name)
    /\ "custom_versions" \in DOMAIN h => Len(h.custom_versions) \in 0..10000
    /\ "custom_versions_format" \in DOMAIN h => h.custom_versions_format \in 0..10

\* C13: every header a header decoder returns (_read_gvas_header of the
\* package, parse_gvas_header of the script) that has a save_game_class_name
\* has a plausible one, a custom-versions count in 0..10000 and a format in
\* 0..10 where read; and a header of which no variant is plausible is not
\* returned at all, so a returned header always has its class name.
C13_PlausibleHeader ==
    \A at \in {LocateMagic(fin.bytes, fin.compression, fin.lib)} :
        (fpc # "start" /\ at.ok) =>
            \A decoded \in {fheader, parse_gvas_header(at.val, at.off)} :
                decoded.ok => ClaimedHeader(decoded.val)

\* every node of a decoded property sequence, the nested ones included: the
\* fields of a struct and the children of an array of structs
RECURSIVE Nodes(_)
Nodes(properties) ==
    UNION {{p} \cup (IF p.cls = "StructProperty" THEN Nodes(p.fields)
                     ELSE IF p.cls = "ArrayProperty" /\ p.inner_type = STR.StructProperty
                          THEN Nodes(p.values)
                          ELSE {})
           : p \in Range(properties)}

\* the size field the specification fixes for the leaf kinds
ClaimedWidth ==
    [IntProperty |-> 4, FloatProperty |-> 4, Int64Property |-> 8,
     UInt64Property |-> 8, DoubleProperty |-> 8, BoolProperty |-> 0]

\* a record with a one-letter name and kind c starts at offset i of data,
\* and its size field is not the width of c
MismatchingRecordAt(data, i, c) ==
    /\ Len(data) >= i + 19 + Len(STR[c])
    /\ data[i + 1] = 2 /\ data[i + 6] = 0
    /\ Slice(data, i, i + 4) = I32Bytes(2)
    /\ Slice(data, i + 6, i + 10 + Len(STR[c]) + 1) = FString(STR[c])
    /\ Slice(data, i + 11 + Len(STR[c]), i + 15 + Len(STR[c])) # U32Bytes(ClaimedWidth[c])

\* C14: a record of kind Int or Float with a size field other than 4, of
\* kind Int64, UInt64 or Double with one other than 8, or of kind Bool with
\* one other than 0 makes read_savefile fail, and no SaveFile it returns
\* holds a node of these kinds with another size, at any depth.
C14_FixedWidths ==
    fpc # "start" =>
        /\ (\E i \in 0..Len(fin.bytes), c \in DOMAIN ClaimedWidth :
                MismatchingRecordAt(fin.bytes, i, c)) => ~fsave.ok
        /\ fsave.ok =>
               \A p \in Nodes(fsave.val.properties) :
                   p.cls \in DOMAIN ClaimedWidth => p.size = ClaimedWidth[p.cls]

\* a good property followed by an Int64 of size 4: the read raised on the
\* assertion, and no SaveFile came back
C14_Witness ==
    /\ fpc = "read"
    /\ \E i \in 1..Len(fin.bytes) : MismatchingRecordAt(fin.bytes, i, "Int64Property")
    /\ \E i \in 0..Len(fin.bytes) :
           Slice(fin.bytes, i, i + Len(Catalogue.Quat)) = Catalogue.Quat
    /\ fheader.ok
    /\ ~fsave.ok
    /\ fsave.err = "AssertionError"

\* the size the specification gives a Str, Name or Object record of a value
ClaimedStringSize(value) == Len(value) + 4 + (IF value # <<>> THEN 1 ELSE 0)

StringKinds == {"StrProperty", "NameProperty", "ObjectProperty"}

\* the record read is one of kind c with a one-letter name, tag 0, the given
\* size field and the given one-byte-per-character value, whole in the buffer
StringRecordRead(c, size, value) ==
    \E n \in 65..90 :
        StartsWith(SubSeq(pin.data, pin.offset + 1, Len(pin.data)),
                   Record(<< n >>, STR[c], size, 0, << 0 >> \o FString(value)))

\* C15: a Str, Name or Object node the decoder returns has size =
\* len(value) + 4 + (1 if the value is non-empty), a record holding that size
\* is accepted whatever its kind (an empty Name or Object of size 4 too), and
\* a record with another size makes the read fail.
C15_StringSizes ==
    ppc # "start" =>
        /\ (pres.ok /\ pres.val # NoProperty) =>
               \A p \in Nodes(<< pres.val >>) :
                   p.cls \in StringKinds => p.size = ClaimedStringSize(p.value)
        /\ \A c \in StringKinds, value \in {<<>>, << 65 >>, << 47, 65 >>}, size \in 4..7 :
               StringRecordRead(c, size, value) =>
                   (pres.ok <=> size = ClaimedStringSize(value))

\* C16: an ArrayProperty with inner type StructProperty that the decoder
\* returns holds at most as many child properties as the count its record
\* declares, and the "None" sentinel that ends the children is not one of
\* them.
C16_ChildrenWithinCount ==
    (ppc # "start" /\ pres.ok /\ pres.val # NoProperty) =>
        \A p \in Nodes(<< pres.val >>) :
            (p.cls = "ArrayProperty" /\ p.inner_type = STR.StructProperty) =>
                /\ Len(p.values) <= p.array_size
                /\ NoProperty \notin Range(p.values)

\* the property sequence as the specification has it decoded: properties
\* are read one after the other until the buffer ends or a name equal to
\* "None" has been read, and nothing behind that sentinel is looked at
RECURSIVE ClaimedSequence(_, _, _, _)
ClaimedSequence(data, offset, end_offset, properties) ==
    IF offset >= end_offset THEN Ok(properties, offset)
    ELSE Then(_read_property(data, offset), LAMBDA r :
             IF r.val = NoProperty /\ _read_string(data, offset).val = STR.None
             THEN Ok(properties, r.off)
             ELSE ClaimedSequence(data, r.off, end_offset,
                      IF r.val = NoProperty THEN properties ELSE Append(properties, r.val)))

\* C17: the top-level property sequence of a file ends at the first name
\* equal to "None": read_savefile succeeds with exactly the properties in
\* front of that sentinel, whatever bytes the buffer holds behind it.
C17_StopsAtSentinel ==
    \A at \in {LocateMagic(fin.bytes, fin.compression, fin.lib)} :
        (fpc # "start" /\ at.ok /\ fheader.ok) =>
            \A claimed \in {ClaimedSequence(at.val, fheader.off, Len(at.val), <<>>)} :
                /\ fsave.ok <=> claimed.ok
                /\ fsave.ok => fsave.val.properties = claimed.val

(***************************************************************************)
(* Properties of the header codec (SpecHeader).                             *)
(***************************************************************************)
\* the little-endian u16 and u32 at an offset of a buffer
U16At(data, o) == data[o + 1] + 256 * data[o + 2]

U32At(data, o) == U16At(data, o) + 65536 * U16At(data, o + 2)

\* the header holds the dual pair and no package_file_version
HoldsDual(h) ==
    /\ {"file_version_ue4", "file_version_ue5"} \subseteq DOMAIN h
    /\ "package_file_version" \notin DOMAIN h

\* the header holds package_file_version and neither of the dual pair
HoldsSingle(h) ==
    /\ "package_file_version" \in DOMAIN h
    /\ "file_version_ue4" \notin DOMAIN h
    /\ "file_version_ue5" \notin DOMAIN h

\* C18: a header decoded from bytes that start with the magic holds the
\* dual pair exactly when the two u16 behind the two candidate i32 file
\* versions (offsets 16 and 18) are both in 0..50 and package_file_version
\* alone otherwise, never both, and its engine version is the one that
\* stands right behind the adopted variant (offset 16 or 12).
C18_LayoutByPeek ==
    (hpc = "read" /\ hres.ok) =>
        \A dual \in {U16At(hout.val, 16) \in 0..50 /\ U16At(hout.val, 18) \in 0..50} :
            \A at \in {IF dual THEN 16 ELSE 12} :
                /\ IF dual
                   THEN /\ HoldsDual(hres.val)
                        /\ hres.val.file_version_ue4 = U32At(hout.val, 8)
                        /\ hres.val.file_version_ue5 = U32At(hout.val, 12)
                   ELSE /\ HoldsSingle(hres.val)
                        /\ hres.val.package_file_version = U32At(hout.val, 8)
                /\ hres.val.engine_version.major = U16At(hout.val, at)
                /\ hres.val.engine_version.minor = U16At(hout.val, at + 2)
                /\ hres.val.engine_version.patch = U16At(hout.val, at + 4)
                /\ hres.val.engine_version.changelist = U32At(hout.val, at + 6)

\* a single-layout header whose peeked pair is (51, 0): one plausible value
\* is not enough, package_file_version was adopted
C18_Witness ==
    /\ hpc = "read"
    /\ hres.ok
    /\ U16At(hout.val, 16) = 51
    /\ U16At(hout.val, 18) = 0
    /\ HoldsSingle(hres.val)
    /\ hres.val.engine_version.major = 4

\* C19: what _write_gvas_header writes for a header reads back as the same
\* file-version variant: a header with package_file_version alone comes back
\* with that package_file_version, no dual pair and the same engine version,
\* whatever the engine version is, and likewise a header with the dual pair.
C19_VariantRoundTrip ==
    hpc = "read" =>
        /\ hres.ok
        /\ hres.val.engine_version = hin.engine_version
        /\ HoldsSingle(hin) =>
               (HoldsSingle(hres.val)
                    /\ hres.val.package_file_version = hin.package_file_version)
        /\ HoldsDual(hin) =>
               (HoldsDual(hres.val)
                    /\ hres.val.file_version_ue4 = hin.file_version_ue4
                    /\ hres.val.file_version_ue5 = hin.file_version_ue5)

(***************************************************************************)
(* Properties of the property codec, continued (SpecProperty).              *)
(***************************************************************************)
\* the node read is an array of bytes
ByteArrayRead ==
    /\ ppc # "start"
    /\ pres.ok
    /\ pres.val.cls = "ArrayProperty"
    /\ pres.val.inner_type = STR.ByteProperty

\* the bytes of an array record in front of its payload: name, type, size,
\* tag, inner type, separator, count
ArrayHead(name, inner_type) ==
    Len(FString(name)) + Len(FString(STR.ArrayProperty)) + 8 + Len(FString(inner_type)) + 1 + 4

\* C20: of an ArrayProperty record with inner type ByteProperty and size
\* field n the decoder consumes n-4 payload bytes behind the count and stores
\* exactly those, and the writer emits them behind the count, so that the
\* record written is as long as the record read.
C20_ByteArrayPayload ==
    ByteArrayRead =>
        \A payload \in {pin.offset + ArrayHead(pres.val.name, STR.ByteProperty)} :
            /\ pres.off = payload + pres.val.size - 4
            /\ pres.val.values = Slice(pin.data, payload, payload + pres.val.size - 4)
            /\ (ppc \in {"written", "reread"} /\ pout.ok) =>
                   Len(pout.val) = pres.off - pin.offset

\* the offset of the u32 tag within a record: behind the name, the type and
\* the size
TagOffset(prop) == Len(FString(prop.name)) + Len(FString(STR[prop.cls])) + 4

\* a node was read and _write_property has written it
PropertyWritten ==
    /\ ppc \in {"written", "reread"}
    /\ pres.ok
    /\ pout.ok

\* C21: the tag word _write_property emits is the tag word that was read,
\* and the byte it emits behind the i32 of an IntProperty is the byte that was
\* read there, whatever its value.
C21_OpaqueBytesKept ==
    PropertyWritten =>
        \A tag \in {TagOffset(pres.val)} :
            /\ Slice(pout.val, tag, tag + 4) = Slice(pin.data, pin.offset + tag, pin.offset + tag + 4)
            /\ U32At(pout.val, tag) = pres.val.tag
            /\ pres.val.cls = "IntProperty" =>
                   /\ Len(pout.val) = tag + 9
                   /\ pout.val[tag + 9] = pin.data[pin.offset + tag + 9]

\* an Int with the byte FF behind its value was read and written
C21_Witness ==
    /\ PropertyWritten
    /\ pres.val.cls = "IntProperty"
    /\ pres.val.int_tag = 255
    /\ pout.val[Len(pout.val)] = 255

\* the bytes of the record that _read_property consumed
RecordRead == Slice(pin.data, pin.offset, pres.off)

\* C22: the bytes _write_property emits for a ByteProperty node are the
\* bytes of the record it was decoded from, the enum-name FString included,
\* both for a one-byte value (size 1) and for an enum member.
C22_ByteRecordIdentical ==
    (PropertyWritten /\ pres.val.cls = "ByteProperty") => pout.val = RecordRead

\* the struct types whose body the codec reads as values, not as properties
WellKnownStructs == {STR.Quat, STR.Vector, STR.DateTime, STR.Guid}

\* the bytes of a struct record in front of its body: name, type, size, tag,
\* struct type, struct GUID, separator
StructHead(prop) ==
    Len(FString(prop.name)) + Len(FString(STR.StructProperty)) + 8
        + Len(FString(prop.type)) + 16 + 1

\* C23: for a Quat, Vector, DateTime or Guid struct the writer emits, behind
\* the struct type, the struct GUID and the separator, exactly size bytes,
\* and they are the body bytes that were read: no property header and no
\* "None" sentinel is written.
C23_WellKnownStructBody ==
    (PropertyWritten /\ pres.val.cls = "StructProperty" /\ pres.val.type \in WellKnownStructs) =>
        \A body \in {StructHead(pres.val)} :
            /\ Len(pout.val) = body + pres.val.size
            /\ Slice(pout.val, body, body + pres.val.size)
                   = Slice(pin.data, pin.offset + body, pin.offset + body + pres.val.size)

\* a MapProperty record with a size field of 5 or more was read
MapRead ==
    /\ ppc # "start"
    /\ pres.ok
    /\ pres.val.cls = "MapProperty"
    /\ pres.val.size >= 5

\* the offset of the u32 entry count within a map record: behind the name,
\* the type, size and tag, the key type, the value type and the separator
MapCountOffset(prop) ==
    Len(FString(prop.name)) + Len(FString(STR.MapProperty)) + 8
        + Len(FString(prop.key_type)) + Len(FString(prop.value_type)) + 1

\* C24: of a MapProperty record with size n >= 5 the decoder stores the
\* entry count and exactly the n-5 bytes that follow it, and the writer emits
\* the record it was decoded from byte for byte.
C24_MapRecordKept ==
    MapRead =>
        \A count \in {pin.offset + MapCountOffset(pres.val)} :
            /\ pres.val.map_size = U32At(pin.data, count)
            /\ Len(pres.val.raw_bytes) = pres.val.size - 5
            /\ pres.val.raw_bytes = Slice(pin.data, count + 4, count + 4 + pres.val.size - 5)
            /\ pres.off = count + 4 + pres.val.size - 5 + 1
            /\ PropertyWritten => pout.val = RecordRead

\* a map with two opaque bytes was read and written back
C24_Witness ==
    /\ MapRead
    /\ PropertyWritten
    /\ pres.val.size = 7
    /\ pres.val.raw_bytes = << 9, 8 >>
    /\ Len(pout.val) = 70

(***************************************************************************)
(* Properties of the file facade, continued (SpecFile).                     *)
(***************************************************************************)
\* a node with a nested property sequence that was non-empty on read: a
\* generic struct with fields, an array of structs with elements
HoldsSequence(p) ==
    \/ /\ p.cls = "StructProperty"
       /\ p.type \notin WellKnownStructs
       /\ p.fields # <<>>
    \/ /\ p.cls = "ArrayProperty"
       /\ p.inner_type = STR.StructProperty
       /\ p.values # <<>>

\* where the written form of a property sequence ends when it starts at
\* offset off of data and every nested sequence in it is followed by one
\* FString "None"; -1 when a sentinel is missing
RECURSIVE SequenceEnd(_, _, _)
SequenceEnd(data, off, properties) ==
    IF off < 0 \/ properties = <<>> THEN off
    ELSE LET p == Head(properties)
             inner == SequenceEnd(data,
                          off + (IF p.cls = "StructProperty" THEN StructHead(p)
                                 ELSE ArrayHead(p.name, p.inner_type)),
                          IF p.cls = "StructProperty" THEN p.fields ELSE p.values)
         IN  IF ~HoldsSequence(p)
             THEN SequenceEnd(data, off + Len(_write_property(<<>>, p).val), Tail(properties))
             ELSE IF inner >= 0 /\ Slice(data, inner, inner + 9) = FString(STR.None)
             THEN SequenceEnd(data, inner + 9, Tail(properties))
             ELSE -1

\* C25: the file write_savefile writes ends with the FString "None" behind
\* the top-level properties, also when there are none, and in it every
\* nested sequence that was non-empty on read (the fields of a generic
\* struct, the elements of an array of structs) is followed by one
\* FString "None".
C25_SentinelsWritten ==
    (fpc \in {"written", "reread"} /\ fout.ok) =>
        \A top \in {SequenceEnd(fout.val,
                                Len(_write_gvas_header(<<>>, fsave.val.header).val),
                                fsave.val.properties)} :
            /\ top >= 0
            /\ Slice(fout.val, top, Len(fout.val)) = FString(STR.None)

\* a file with an empty struct and a struct with one field was written: one
\* sentinel behind the field, one at the end of the file
C25_Witness ==
    /\ fpc = "written"
    /\ fout.ok
    /\ Len(fsave.val.properties) = 2
    /\ \E i, j \in 1..2 :
           /\ HoldsSequence(fsave.val.properties[i])
           /\ fsave.val.properties[i].cls = "StructProperty"
           /\ fsave.val.properties[j].cls = "StructProperty"
           /\ fsave.val.properties[j].type \notin WellKnownStructs
           /\ fsave.val.properties[j].fields = <<>>

\* C26: the read cursor never moves backwards: behind the u32 count of a
\* MapProperty and of an Array<ByteProperty> the cursor stays or advances,
\* whatever the size field says (a map of size < 5, a byte array of size < 4
\* included), so that the separator of a map and the end of a byte array
\* lie no earlier than the end of the count; and _write_property only
\* appends to the buffer it is given.
C26_SinglePass ==
    (ppc # "start" /\ pres.ok /\ pres.val # NoProperty) =>
        /\ pres.off >= pin.offset
        /\ pres.val.cls = "MapProperty" =>
               pres.off - 1 >= pin.offset + MapCountOffset(pres.val) + 4
        /\ (pres.val.cls = "ArrayProperty" /\ pres.val.inner_type = STR.ByteProperty) =>
               pres.off >= pin.offset + ArrayHead(pres.val.name, STR.ByteProperty)
        /\ \A buffer \in {<<>>, << 255, 255 >>} :
               \A written \in {_write_property(buffer, pres.val)} :
                   written.ok => StartsWith(written.val, buffer)

(***************************************************************************)
(* Properties of the web inspector (SpecWeb).                               *)
(***************************************************************************)
\* C27: every file the upload endpoint stored under UPLOAD_ROOT, whether
\* parsing it succeeded or failed, is eventually deleted by the cleaner.
C27_UploadsExpire ==
    \A i \in 1..MaxUploads : (uploads[i] # NoFile) ~> (uploads[i] = NoFile)

(***************************************************************************)
(* Properties of the property codec, continued (SpecProperty).              *)
(***************************************************************************)
\* the 32-bit fields from offset on all fit the integers of the model
\* (top byte below 127), whichever of them the decoder comes to read
FieldsRepresentable(data, offset) ==
    \A k \in (offset + 1)..Len(data) : data[k] < 127

\* C28: one iteration of a decoding loop, the top-level one or that of a
\* struct or of an array of structs, is one call of _read_property at the
\* cursor: the call raises or returns a cursor strictly greater than the one
\* it started from, so that no loop can run forever. This holds for the
\* record that was read and for a call started at any other offset of the
\* buffer, where the length and size fields are whatever bytes lie there.
C28_IterationAdvances ==
    ppc = "read" =>
        /\ pres.ok => pres.off > pin.offset
        /\ \A o \in 0..Len(pin.data) :
               FieldsRepresentable(pin.data, o) =>
                   \A step \in {_read_property(pin.data, o)} :
                       step.ok => step.off > o

\* a struct whose body is the sentinel alone was read from offset 2: the
\* iteration inside it and the one that read the struct both advanced
C28_Witness ==
    /\ ppc = "read"
    /\ pin.offset = 2
    /\ pres.ok
    /\ pres.val.cls = "StructProperty"
    /\ pres.val.fields = <<>>
    /\ pres.val.size = 9
    /\ pres.off = Len(pin.data) - 3
    /\ \E o \in 3..Len(pin.data) :
           /\ _read_property(pin.data, o).ok
           /\ _read_property(pin.data, o).val = NoProperty
           /\ _read_property(pin.data, o).off = pres.off

(***************************************************************************)
(* Properties of read_savefile and write_savefile, continued (SpecFile).    *)
(***************************************************************************)
\* a generic struct that was decoded with no fields although its size is
\* positive: its body held the sentinel alone
ZeroFieldStruct(prop) ==
    /\ prop.cls = "StructProperty"
    /\ prop.type \notin WellKnownStructs
    /\ prop.fields = <<>>
    /\ prop.size > 0

\* C29: a generic struct decoded with zero fields from a body that held only
\* the sentinel survives a write/read cycle: the file written is read back
\* with the same number of top-level properties, the struct is again a
\* struct with zero fields and the properties that followed it are still
\* its siblings, unchanged.
C29_ZeroFieldStructKept ==
    (/\ fpc = "reread"
     /\ fsave.ok
     /\ \E i \in DOMAIN fsave.val.properties :
            ZeroFieldStruct(fsave.val.properties[i])) =>
        /\ fsave2.ok
        /\ fsave2.val.properties = fsave.val.properties

(***************************************************************************)
(* Properties of the property codec, continued (SpecProperty).              *)
(***************************************************************************)
\* the buffer holds an empty name FString (length 0) at the offset
EmptyNameAt(data, offset) ==
    StartsWith(Slice(data, offset, Len(data)), << 0, 0, 0, 0 >>)

\* offset of the body of a generic struct record with a one-letter name and
\* the three-letter type the catalogue uses, read from start
StructBodyOffset(start) ==
    start + Len(Record(<< 71 >>, STR.StructProperty, 0, 0, <<>>)) + 4 + 4 + 16 + 1

\* C30: no node the decoder produces, at the top or nested, is named "None"
\* or has the empty name. A name FString of length 0 is taken for the
\* sentinel: _read_property returns no property with the cursor right behind
\* the four length bytes, leaving type, size, tag and body unread, and as the
\* first name in the body of a struct it ends the fields there.
C30_NoSentinelNode ==
    ppc = "read" =>
        /\ (pres.ok /\ pres.val # NoProperty) =>
               \A node \in Nodes(<< pres.val >>) : node.name \notin {STR.None, <<>>}
        /\ EmptyNameAt(pin.data, pin.offset) =>
               /\ pres.ok
               /\ pres.val = NoProperty
               /\ pres.off = pin.offset + 4
        /\ (/\ pres.ok
            /\ pres.val # NoProperty
            /\ pres.val.cls = "StructProperty"
            /\ pres.val.type \notin WellKnownStructs
            /\ pres.val.size > 0
            /\ EmptyNameAt(pin.data, StructBodyOffset(pin.offset))) =>
               /\ pres.val.fields = <<>>
               /\ pres.off = StructBodyOffset(pin.offset) + 4

\* a whole Bool record with an empty name was read behind two other bytes:
\* no property, and the cursor behind the name's four bytes
C30_Witness ==
    /\ ppc = "read"
    /\ pin.offset = 2
    /\ Slice(pin.data, 2, Len(pin.data) - 3) = Catalogue.Unnamed
    /\ pres.ok
    /\ pres.val = NoProperty
    /\ pres.off = 6

====
